---- MODULE Spec2Model ----
(***************************************************************************)
(* A state-machine model of the ai-news-agg pipeline: source               *)
(* reconciliation, the ingestion pass with URL deduplication, and the      *)
(* per-item summarizer with its marker parser.                             *)
(***************************************************************************)
EXTENDS Integers, Sequences, FiniteSets, TLC

(***************************************************************************)
(* Bounds of the model.                                                    *)
(***************************************************************************)
\* pipeline executions (run_daily_digest) in one behaviour
MaxRuns == 2
\* applications of create_sources_from_config in one behaviour of SpecReconcile
MaxApply == 2
\* entries in one declared-sources list
MaxCfg == 2
\* items one connector call returns
MaxBatch == 2
\* store failures injected in one behaviour
MaxFaults == 1

\* tokens in a model output drawn exhaustively
MaxLen == 4
\* characters by which an article text may exceed the character budget
MaxOver == 2
\* articles in the store and in the input of one generate_digest call
MaxDigest == 2
\* entries of a feed drawn exhaustively
MaxFeed == 3
\* elements of a page the content selectors match
MaxSel == 2
\* videos in the listing of a channel
MaxVideos == 2

\* Python's None
None == "None"

\* an absent text (None), as opposed to the empty text <<>>
NoText == << None >>

(***************************************************************************)
(* Inputs: declared sources and scraped items.                             *)
(***************************************************************************)
RECURSIVE SeqsUpTo(_, _)
SeqsUpTo(S, n) ==
    IF n = 0 THEN { <<>> }
    ELSE LET shorter == SeqsUpTo(S, n - 1)
         IN shorter \cup { Append(s, x) : s \in { t \in shorter : Len(t) = n - 1 }, x \in S }

Range(s) == { s[i] : i \in 1..Len(s) }

SourceURLs == {"sA", "sB", "sC"}
ArticleURLs == {"u1", "u2"}

\* the protocol tag a declared source carries (SourceType values)
SourceTypeOf(url) == IF url = "sA" THEN "rss" ELSE IF url = "sB" THEN "youtube" ELSE "web"

\* one entry of the declared-sources list (config/sources.yaml)
ConfigEntries == { [name |-> u, type |-> SourceTypeOf(u), url |-> u, active |-> a] :
                     u \in SourceURLs, a \in BOOLEAN }

\* the declared-sources files of the pipeline model: each URL at most once, in
\* the order sA, sB, sC, each entry active or not
DeclaredLists ==
    { cfg \in SeqsUpTo(ConfigEntries, Cardinality(SourceURLs)) :
        \A i, j \in 1..Len(cfg) : i < j =>
            /\ cfg[i].url # cfg[j].url
            /\ (cfg[i].url = "sA" \/ cfg[j].url = "sC") }

\* what a connector attaches to a URL depends on the protocol of the source:
\* a feed entry has a body and a publish date, a video a description and a
\* transcript, a web page a body and no date (ScrapedArticle)
ScrapedArticle(u, type) ==
    IF type = "rss"
    THEN [title |-> "feed entry", url |-> u, content |-> "body", transcript |-> None,
          published_date |-> "d1"]
    ELSE IF type = "youtube"
    THEN [title |-> "video", url |-> u, content |-> "description",
          transcript |-> "transcript", published_date |-> "d2"]
    ELSE [title |-> "page", url |-> u, content |-> "markdown", transcript |-> None,
          published_date |-> None]

\* what a connector call can do: raise, or return up to MaxBatch items
ConnectorResults(type) ==
    { [raised |-> TRUE, batch |-> <<>>] } \cup
    { [raised |-> FALSE, batch |-> [i \in 1..Len(us) |-> ScrapedArticle(us[i], type)]] :
        us \in SeqsUpTo(ArticleURLs, MaxBatch) }

(***************************************************************************)
(* Store operations on sources (DatabaseService).  A session value is      *)
(* [committed, flushed, nextId]: the durable rows, the rows flushed in the *)
(* open transaction, and the id sequence.                                  *)
(***************************************************************************)
\* db.query(Source).filter(Source.url == url).first(): the session reads its
\* own flushed rows as well as the committed ones; <<>> stands for None
GetSourceByUrlCommittedOnly(ss, url) ==
    SelectSeq(ss.committed, LAMBDA r : r.url = url)

GetSourceByUrl(ss, url) ==
    SelectSeq(ss.committed \o ss.flushed, LAMBDA r : r.url = url)

\* Source(...); db.add; db.flush.  sources.url is unique: a second row with
\* the URL makes the flush raise IntegrityError.
CreateSource(ss, entry) ==
    IF \E r \in Range(ss.committed \o ss.flushed) : r.url = entry.url
    THEN [ss |-> ss, raised |-> TRUE]
    ELSE [ss |-> [ss EXCEPT !.flushed = Append(@, [id |-> ss.nextId,
                                                   name |-> entry.name,
                                                   source_type |-> entry.type,
                                                   url |-> entry.url,
                                                   active |-> entry.active]),
                            !.nextId = @ + 1],
          raised |-> FALSE]

\* the loop of create_sources_from_config from entry i on; r is
\* [ss, raised]
RECURSIVE CreateSourcesLoop(_, _, _)
CreateSourcesLoop(r, cfg, i) ==
    IF r.raised \/ i > Len(cfg) THEN r
    ELSE IF GetSourceByUrl(r.ss, cfg[i].url) # <<>>
         THEN CreateSourcesLoop(r, cfg, i + 1)
         ELSE CreateSourcesLoop(CreateSource(r.ss, cfg[i]), cfg, i + 1)

\* create_sources_from_config: the loop, then db.commit(); commitFails is the
\* store failing at the commit.  An exception leaves the transaction to be
\* rolled back by get_db: nothing flushed becomes durable (the id sequence is
\* not rolled back).
CreateSourcesFromConfig(ss, cfg, commitFails) ==
    LET r == CreateSourcesLoop([ss |-> ss, raised |-> FALSE], cfg, 1)
    IN IF r.raised \/ commitFails
       THEN [ss |-> [r.ss EXCEPT !.flushed = <<>>], created |-> <<>>, raised |-> TRUE]
       ELSE [ss |-> [r.ss EXCEPT !.committed = @ \o r.ss.flushed, !.flushed = <<>>],
             created |-> r.ss.flushed, raised |-> FALSE]

\* db.query(Source).filter(Source.active == True).all()
GetActiveSources(rows) == SelectSeq(rows, LAMBDA r : r.active)

(***************************************************************************)
(* Store operations on articles.  A session value is [committed, pending,  *)
(* ok, nextId]: the durable rows, the rows flushed in the open             *)
(* transaction, whether the session can still execute statements, and the  *)
(* id sequence.                                                            *)
(***************************************************************************)
\* the rows a statement of the session reads: its own flushed rows included
VisibleCommittedOnly(db) == db.committed

Visible(db) == db.committed \o db.pending

\* db.query(Article).filter(Article.url == url).first(); <<>> stands for None
GetArticleByUrl(db, url) == SelectSeq(Visible(db), LAMBDA r : r.url = url)

\* a statement failed: the open transaction is lost with everything flushed
\* in it, and the session refuses further statements until it is rolled back
Failed(db) == [db EXCEPT !.pending = <<>>, !.ok = FALSE]

\* Article(...); db.add; db.flush.  articles.url is unique: a second row with
\* the URL makes the flush raise IntegrityError.  summary is None at creation,
\* scraped_at defaults to the insertion time.
CreateArticle(db, source_id, scraped, clock) ==
    IF \E r \in Range(Visible(db)) : r.url = scraped.url
    THEN [db |-> Failed(db), raised |-> TRUE, row |-> <<>>]
    ELSE LET article == [id |-> db.nextId,
                         source_id |-> source_id,
                         title |-> scraped.title,
                         url |-> scraped.url,
                         content |-> scraped.content,
                         summary |-> NoText,
                         transcript |-> scraped.transcript,
                         published_date |-> scraped.published_date,
                         scraped_at |-> clock]
         IN [db |-> [db EXCEPT !.pending = Append(@, article), !.nextId = @ + 1],
             raised |-> FALSE, row |-> <<article>>]

\* db.commit()
Commit(db) == [db EXCEPT !.committed = @ \o db.pending, !.pending = <<>>]

\* the store operations of _save_scraped_articles at which a failure can be
\* injected: the lookup or the insert of item i, or the final commit
NoFault == << "none", 0 >>
FaultPoints(batch) ==
    { NoFault, << "commit", 0 >> } \cup
    { << op, i >> : op \in { "lookup", "insert" }, i \in 1..Len(batch) }

(***************************************************************************)
(* ScrapingService.  The state of one _save_scraped_articles call is       *)
(* [db, saved, skipped, raised]: the session, saved_articles, the URLs      *)
(* printed as already existing, and whether an exception is propagating.   *)
(***************************************************************************)
\* one iteration of the loop of _save_scraped_articles, for item i
SaveOneUpsert(st, source, scraped, i, fault, clock) ==
    IF ~st.db.ok \/ fault = << "lookup", i >>
    THEN [st EXCEPT !.db = Failed(st.db), !.raised = TRUE]
    ELSE IF GetArticleByUrl(st.db, scraped.url) # <<>>
    THEN [st EXCEPT !.skipped = Append(@, scraped.url),
                    !.db.committed = [k \in DOMAIN @ |->
                        IF @[k].url = scraped.url
                        THEN [@[k] EXCEPT !.title = scraped.title,
                                          !.content = scraped.content,
                                          !.transcript = scraped.transcript,
                                          !.published_date = scraped.published_date]
                        ELSE @[k]]]
    ELSE IF fault = << "insert", i >>
    THEN [st EXCEPT !.db = Failed(st.db), !.raised = TRUE]
    ELSE LET c == CreateArticle(st.db, source.id, scraped, clock)
         IN IF c.raised
            THEN [st EXCEPT !.db = c.db, !.raised = TRUE]
            ELSE [st EXCEPT !.db = c.db, !.saved = @ \o c.row]

SaveOneReturnsExisting(st, source, scraped, i, fault, clock) ==
    IF ~st.db.ok \/ fault = << "lookup", i >>
    THEN [st EXCEPT !.db = Failed(st.db), !.raised = TRUE]
    ELSE IF GetArticleByUrl(st.db, scraped.url) # <<>>
    THEN [st EXCEPT !.skipped = Append(@, scraped.url),
                    !.saved = Append(@, GetArticleByUrl(st.db, scraped.url)[1])]
    ELSE IF fault = << "insert", i >>
    THEN [st EXCEPT !.db = Failed(st.db), !.raised = TRUE]
    ELSE LET c == CreateArticle(st.db, source.id, scraped, clock)
         IN IF c.raised
            THEN [st EXCEPT !.db = c.db, !.raised = TRUE]
            ELSE [st EXCEPT !.db = c.db, !.saved = @ \o c.row]

SaveOne(st, source, scraped, i, fault, clock) ==
    IF ~st.db.ok \/ fault = << "lookup", i >>
    THEN [st EXCEPT !.db = Failed(st.db), !.raised = TRUE]
    ELSE IF GetArticleByUrl(st.db, scraped.url) # <<>>
    THEN [st EXCEPT !.skipped = Append(@, scraped.url)]
    ELSE IF fault = << "insert", i >>
    THEN [st EXCEPT !.db = Failed(st.db), !.raised = TRUE]
    ELSE LET c == CreateArticle(st.db, source.id, scraped, clock)
         IN IF c.raised
            THEN [st EXCEPT !.db = c.db, !.raised = TRUE]
            ELSE [st EXCEPT !.db = c.db, !.saved = @ \o c.row]

\* the loop of _save_scraped_articles from item i on, then self.db.commit()
RECURSIVE SaveLoop(_, _, _, _, _, _)
SaveLoop(st, source, batch, i, fault, clock) ==
    IF st.raised THEN st
    ELSE IF i <= Len(batch)
    THEN SaveLoop(SaveOne(st, source, batch[i], i, fault, clock),
                  source, batch, i + 1, fault, clock)
    ELSE IF ~st.db.ok \/ fault = << "commit", 0 >>
    THEN [st EXCEPT !.db = Failed(st.db), !.raised = TRUE]
    ELSE [st EXCEPT !.db = Commit(st.db)]

SaveScrapedArticles(db, source, batch, fault, clock) ==
    SaveLoop([db |-> db, saved |-> <<>>, skipped |-> <<>>, raised |-> FALSE],
             source, batch, 1, fault, clock)

\* scrape_source: the connector call and the save inside try/except Exception;
\* whatever raises, the source yields [].  The result is [db, ret, skipped,
\* raised, injected]: raised says an exception leaves scrape_source, injected
\* that the injected store failure happened.
ScrapeSourceNoCatch(db, source, conn, fault, clock) ==
    IF conn.raised
    THEN [db |-> db, ret |-> <<>>, skipped |-> <<>>, raised |-> TRUE, injected |-> FALSE]
    ELSE LET st == SaveScrapedArticles(db, source, conn.batch, fault, clock)
         IN [db |-> st.db,
             ret |-> IF st.raised THEN <<>> ELSE st.saved,
             skipped |-> st.skipped,
             raised |-> st.raised,
             injected |-> st.raised /\ db.ok]

\* scrape_source if it returned the articles created before the exception
ScrapeSourceReturnsCreated(db, source, conn, fault, clock) ==
    IF conn.raised
    THEN [db |-> db, ret |-> <<>>, skipped |-> <<>>, raised |-> FALSE, injected |-> FALSE]
    ELSE LET st == SaveScrapedArticles(db, source, conn.batch, fault, clock)
         IN [db |-> st.db,
             ret |-> st.saved,
             skipped |-> st.skipped,
             raised |-> FALSE,
             injected |-> st.raised /\ db.ok]

ScrapeSource(db, source, conn, fault, clock) ==
    IF conn.raised
    THEN [db |-> db, ret |-> <<>>, skipped |-> <<>>, raised |-> FALSE, injected |-> FALSE]
    ELSE LET st == SaveScrapedArticles(db, source, conn.batch, fault, clock)
         IN [db |-> st.db,
             ret |-> IF st.raised THEN <<>> ELSE st.saved,
             skipped |-> st.skipped,
             raised |-> FALSE,
             injected |-> st.raised /\ db.ok]

(***************************************************************************)
(* AISummarizer.generate_article_snippet.  A text is a sequence of         *)
(* characters.  In a model output the markers SNIPPET: and KEY POINTS: are *)
(* single tokens: str.split and the in operator find them whole, and no    *)
(* character of a marker's ends is whitespace or a dash.                   *)
(***************************************************************************)
\* content[:3000]
MaxChars == 3000

SNIP == "SNIPPET:"
KEYP == "KEY POINTS:"
Whitespace == { " ", "\t", "\n" }
OutputAlphabet == { "a", "b", " ", "\t", "-", "\n", SNIP, KEYP }

\* the sentinel snippets, each a one-token text
NotAvailableSnippet == << "Content not available for analysis." >>
UnableSnippet == << "Unable to generate snippet." >>
ErrorSnippet == << "Error generating summary." >>

Min(a, b) == IF a < b THEN a ELSE b

\* text[:MaxChars]
TruncateNot(text) == text

Truncate(text) == SubSeq(text, 1, Min(Len(text), MaxChars))

\* truthiness of an Optional[str]
Truthy(text) == text # NoText /\ text # <<>>

\* text_to_analyze: the body if it is non-empty, else the transcript if it is
TextToAnalyzeTranscriptFirst(content, transcript) ==
    IF Truthy(transcript) THEN Truncate(transcript)
    ELSE IF Truthy(content) THEN Truncate(content)
    ELSE <<>>

TextToAnalyze(content, transcript) ==
    IF Truthy(content) THEN Truncate(content)
    ELSE IF Truthy(transcript) THEN Truncate(transcript)
    ELSE <<>>

\* x in s
Contains(s, x) == \E i \in 1..Len(s) : s[i] = x

\* s.strip(chars)
RECURSIVE LStrip(_, _)
LStrip(s, chars) ==
    IF s # <<>> /\ Head(s) \in chars THEN LStrip(Tail(s), chars) ELSE s

RECURSIVE RStrip(_, _)
RStrip(s, chars) ==
    IF s # <<>> /\ s[Len(s)] \in chars THEN RStrip(SubSeq(s, 1, Len(s) - 1), chars) ELSE s

StripChars(s, chars) == RStrip(LStrip(s, chars), chars)

\* s.strip()
Strip(s) == StripChars(s, Whitespace)

\* s.split(sep): the pieces between the occurrences of sep
RECURSIVE Split(_, _)
Split(s, sep) ==
    IF ~Contains(s, sep) THEN << s >>
    ELSE LET k == CHOOSE i \in 1..Len(s) : s[i] = sep /\ \A j \in 1..(i - 1) : s[j] # sep
         IN << SubSeq(s, 1, k - 1) >> \o Split(SubSeq(s, k + 1, Len(s)), sep)

\* s.startswith(c)
StartsWith(s, c) == s # <<>> /\ s[1] = c

\* the snippet of a model output; raised stands for the IndexError of an
\* unguarded [1]
ParseSnippetUnguarded(result) ==
    IF Len(Split(result, SNIP)) < 2
    THEN [raised |-> TRUE, value |-> <<>>]
    ELSE [raised |-> FALSE, value |-> Strip(Split(Split(result, SNIP)[2], KEYP)[1])]

ParseSnippet(result) ==
    IF Contains(result, SNIP)
    THEN [raised |-> FALSE, value |-> Strip(Split(Split(result, SNIP)[2], KEYP)[1])]
    ELSE [raised |-> FALSE, value |-> <<>>]

\* the key points of a model output
ParseKeyPointsAnyLine(result) ==
    IF Contains(result, KEYP)
    THEN LET points_part == Strip(Split(result, KEYP)[2])
             lines == SelectSeq(Split(points_part, "\n"), LAMBDA line : Strip(line) # <<>>)
         IN [i \in 1..Len(lines) |-> Strip(StripChars(lines[i], { "-", " " }))]
    ELSE <<>>

ParseKeyPoints(result) ==
    IF Contains(result, KEYP)
    THEN LET points_part == Strip(Split(result, KEYP)[2])
             lines == SelectSeq(Split(points_part, "\n"),
                                LAMBDA line : Strip(line) # <<>> /\ StartsWith(Strip(line), "-"))
         IN [i \in 1..Len(lines) |-> Strip(StripChars(lines[i], { "-", " " }))]
    ELSE <<>>

\* ArticleSummary
ArticleSummary(article, snippet, key_points) ==
    [article_id |-> article.id, title |-> article.title, url |-> article.url,
     snippet |-> snippet, key_points |-> key_points]

\* the completion request with no except clause around it: a failure of the
\* request leaves no summary
SummaryOfReplyNoCatch(article, reply) ==
    IF reply.kind # "text"
    THEN [raised |-> reply.kind]
    ELSE LET result == Strip(reply.text)
             snippet == ParseSnippet(result)
         IN ArticleSummary(article,
                           IF snippet.value # <<>> THEN snippet.value ELSE UnableSnippet,
                           ParseKeyPoints(result))

\* the try block after the completion request: a reply is [kind, text] with
\* kind "raise" (the client raises), "none" (message.content is None),
\* "malformed" (the response has no choices) or "text"
SummaryOfReply(article, reply) ==
    IF reply.kind # "text"
    THEN ArticleSummary(article, ErrorSnippet, <<>>)
    ELSE LET result == Strip(reply.text)
             snippet == ParseSnippet(result)
         IN IF snippet.raised
            THEN ArticleSummary(article, ErrorSnippet, <<>>)
            ELSE ArticleSummary(article,
                                IF snippet.value # <<>> THEN snippet.value ELSE UnableSnippet,
                                ParseKeyPoints(result))

(***************************************************************************)
(* Inputs of the summarizer.                                               *)
(***************************************************************************)
\* a body and a transcript of n characters; the characters depend on the
\* position, and the two texts share none
Body(n) == [i \in 1..n |-> IF i % 3 = 0 THEN "x" ELSE IF i % 3 = 1 THEN "y" ELSE "z"]
Transcript(n) == [i \in 1..n |-> IF i % 2 = 0 THEN "p" ELSE "q"]

TextLens == { 0, 1, MaxChars - 1 } \cup (MaxChars .. (MaxChars + MaxOver))

ArticleWith(content, transcript) ==
    [id |-> 7, title |-> "T", url |-> "u1", content |-> content, transcript |-> transcript]

AllArticles ==
    { ArticleWith(c, t) : c \in { NoText } \cup { Body(n) : n \in TextLens },
                      t \in { NoText } \cup { Transcript(n) : n \in TextLens } }

SmallArticles == { ArticleWith(Body(1), NoText) }

\* the output of the parsing example of the specification:
\* "SNIPPET: A calm day.\nKEY POINTS:\n- one\n- two", a letter for each word
ExampleOutput ==
    << SNIP, " ", "a", " ", "b", "\n", KEYP, "\n", "-", " ", "a", "\n", "-", " ", "b" >>

\* longer outputs: two markers of a kind, unbulleted lines, lines of dashes
LongOutputs ==
    { ExampleOutput,
      << SNIP, " ", "a", "\n", KEYP, "\n", "a", "\n", "-", " ", "b", "\n", "\t", "-", "a" >>,
      << SNIP, "a", SNIP, "b", KEYP, "-", "a", "\n", "-", "-", "\n", "-", "b", KEYP, "-", "a" >>,
      << "a", "\n", "-", " ", "b" >> }

TextReply(text) == [kind |-> "text", text |-> text]

FewReplies ==
    { [kind |-> k, text |-> <<>>] : k \in { "raise", "none", "malformed" } } \cup
    { TextReply(t) : t \in LongOutputs }

AllReplies == FewReplies \cup { TextReply(t) : t \in SeqsUpTo(OutputAlphabet, MaxLen) }

(***************************************************************************)
(* AISummarizer.generate_overall_summary and DigestService.generate_digest.*)
(***************************************************************************)
OVER == "OVERALL SUMMARY:"
INS == "KEY INSIGHTS:"

\* the sentinel overall summaries, each a one-token text
NoArticlesSummary == << "No articles to summarize." >>
NoNewArticlesSummary == << "No new articles to summarize." >>
UnableOverall == << "Unable to generate overall summary." >>
ErrorOverall == << "Error generating overall summary." >>

\* DigestSummary
DigestSummary(overall_summary, insights, article_summaries) ==
    [overall_summary |-> overall_summary, insights |-> insights,
     article_summaries |-> article_summaries]

\* the overall summary and the insights of a model output
ParseOverallSummary(result) ==
    IF Contains(result, OVER) THEN Strip(Split(Split(result, OVER)[2], INS)[1]) ELSE <<>>

ParseInsights(result) ==
    IF Contains(result, INS)
    THEN LET insights_part == Strip(Split(result, INS)[2])
             lines == SelectSeq(Split(insights_part, "\n"),
                                LAMBDA line : Strip(line) # <<>> /\ StartsWith(Strip(line), "-"))
         IN [i \in 1..Len(lines) |-> Strip(StripChars(lines[i], { "-", " " }))]
    ELSE <<>>

\* articles_text of the aggregate prompt: number, title, snippet and key
\* points of each summary, in the order of the list
ArticlesText(article_summaries) ==
    [i \in 1..Len(article_summaries) |->
        [number |-> i, title |-> article_summaries[i].title,
         snippet |-> article_summaries[i].snippet,
         key_points |-> article_summaries[i].key_points]]

\* the try block of generate_overall_summary
OverallOfReplyNoCatch(article_summaries, reply) ==
    IF reply.kind # "text"
    THEN [raised |-> reply.kind]
    ELSE LET result == Strip(reply.text)
             overall_summary == ParseOverallSummary(result)
         IN DigestSummary(IF overall_summary # <<>> THEN overall_summary ELSE UnableOverall,
                          ParseInsights(result), article_summaries)

OverallOfReply(article_summaries, reply) ==
    IF reply.kind # "text"
    THEN DigestSummary(ErrorOverall, <<>>, article_summaries)
    ELSE LET result == Strip(reply.text)
             overall_summary == ParseOverallSummary(result)
         IN DigestSummary(IF overall_summary # <<>> THEN overall_summary ELSE UnableOverall,
                          ParseInsights(result), article_summaries)

\* generate_overall_summary: the digest returned and the requests sent
GenerateOverallSummaryNoGuard(article_summaries, reply) ==
    [digest |-> OverallOfReply(article_summaries, reply),
     sent |-> << ArticlesText(article_summaries) >>]

GenerateOverallSummary(article_summaries, reply) ==
    IF article_summaries = <<>>
    THEN [digest |-> DigestSummary(NoArticlesSummary, <<>>, <<>>), sent |-> <<>>]
    ELSE [digest |-> OverallOfReply(article_summaries, reply),
          sent |-> << ArticlesText(article_summaries) >>]

\* generate_article_snippet as generate_digest calls it: the summary
\* returned and the requests sent
GenerateArticleSnippet(a, reply) ==
    LET text_to_analyze == TextToAnalyze(a.content, a.transcript)
    IN IF text_to_analyze = <<>>
       THEN [summary |-> ArticleSummary(a, NotAvailableSnippet, <<>>), sent |-> <<>>]
       ELSE [summary |-> SummaryOfReply(a, reply),
             sent |-> << [title |-> a.title, text |-> text_to_analyze] >>]

\* the article the for loop of generate_digest takes next, given the
\* summaries appended so far
NextArticleLastFirst(digestArticles, article_summaries) ==
    Len(digestArticles) - Len(article_summaries)

NextArticle(digestArticles, article_summaries) == Len(article_summaries) + 1

\* update_article_summary: the row with the id, if any, gets the summary
UpdateArticleSummary(rows, article_id, snippet) ==
    [i \in 1..Len(rows) |->
        IF rows[i].id = article_id THEN [rows[i] EXCEPT !.summary = snippet] ELSE rows[i]]

\* the model outputs the digest model considers
ItemReplies ==
    { [kind |-> "raise", text |-> <<>>], TextReply(ExampleOutput), TextReply(<< "a" >>) }

OverallOutputs ==
    { << OVER, " ", "a", "\n", "\n", INS, "\n", "-", " ", "b", "\n", "-", " ", "a" >>,
      << INS, "\n", "-", "a" >>,
      << "a" >> }

OverallReplies ==
    { [kind |-> k, text |-> <<>>] : k \in { "raise", "none", "malformed" } } \cup
    { TextReply(t) : t \in OverallOutputs }

(***************************************************************************)
(* RSSFeedScraper.scrape.                                                  *)
(***************************************************************************)
\* a feed entry: its position in the feed stands for its title; link is ""
\* when the entry has none; malformed entries make the loop body raise
FeedEntry(i, kind) ==
    [title |-> i, link |-> IF kind = "nolink" THEN "" ELSE "link",
     malformed |-> kind = "malformed"]

FeedOf(kinds) == [i \in 1..Len(kinds) |-> FeedEntry(i, kinds[i])]

\* the feeds of the model: every feed of up to MaxFeed entries, and the feed
\* of 15 well-formed entries
Feeds ==
    { FeedOf(kinds) : kinds \in SeqsUpTo({ "ok", "nolink", "malformed" }, MaxFeed) } \cup
    { FeedOf([i \in 1..15 |-> "ok"]) }

\* the limits of the model
FeedLimits == (0..(MaxFeed + 1)) \cup { 10 }

\* source.config: None (present is FALSE) or a mapping with the keys given;
\* the field of a key that is not given is not looked at
NoConfig ==
    [present |-> FALSE, keys |-> {}, max_articles |-> 0, use_docling |-> FALSE,
     fallback_to_bs4 |-> FALSE]

EmptyConfig == [NoConfig EXCEPT !.present = TRUE]

FeedConfigs ==
    { NoConfig, EmptyConfig } \cup
    { [EmptyConfig EXCEPT !.keys = { "max_articles" }, !.max_articles = m] : m \in FeedLimits }

\* config.get(key, default) if config else default
ConfigGet(cfg, key, default) ==
    IF cfg.present /\ cfg.keys # {}
    THEN IF key \in cfg.keys THEN cfg[key] ELSE default
    ELSE default

MaxArticles(cfg, default) == ConfigGet(cfg, "max_articles", default)

\* entries[:m] for m >= 0
Take(entries, m) == SubSeq(entries, 1, Min(Len(entries), m))

\* the loop body: an entry without link is skipped, one that raises is skipped
EntryKept(entry) == entry.link # "" /\ ~entry.malformed

EntryArticle(entry) ==
    [title |-> entry.title, url |-> entry.link, content |-> None, transcript |-> None,
     published_date |-> None]

\* scrape: the articles of the kept entries among the first max_articles
RssScrapeLimitAfter(entries, max_articles) ==
    LET kept == Take(SelectSeq(entries, EntryKept), max_articles)
    IN [i \in 1..Len(kept) |-> EntryArticle(kept[i])]

\* the messages scrape prints about the entries: one for each entry among
\* the first max_articles whose processing raises
RssScrapeLog(entries, max_articles) ==
    LET raising == SelectSeq(Take(entries, max_articles), LAMBDA e : e.link # "" /\ e.malformed)
    IN [i \in 1..Len(raising) |->
           [message |-> "Error parsing feed entry", entry |-> raising[i].title]]

\* scrape if a malformed entry ended the loop instead of being skipped
RssScrapeStopAtMalformed(entries, max_articles) ==
    LET taken == Take(entries, max_articles)
        bad == { i \in 1..Len(taken) : taken[i].malformed }
        upto == IF bad = {} THEN Len(taken)
                ELSE (CHOOSE i \in bad : \A j \in bad : i <= j) - 1
        kept == SelectSeq(SubSeq(taken, 1, upto), EntryKept)
    IN [i \in 1..Len(kept) |-> EntryArticle(kept[i])]

RssScrape(entries, max_articles) ==
    LET kept == SelectSeq(Take(entries, max_articles), EntryKept)
    IN [i \in 1..Len(kept) |-> EntryArticle(kept[i])]

(***************************************************************************)
(* WebScraper.scrape.                                                      *)
(***************************************************************************)
\* the number of characters content must have to count as an article body
MinContent == 100

\* what docling does with the URL: it raises, exports nothing, or exports a
\* text, here n characters with or without whitespace around them
DoclingOutcomes ==
    { [kind |-> k, text |-> <<>>] : k \in { "raise", "none" } } \cup
    { [kind |-> "text", text |-> << " " >> \o Body(n) \o << "\n" >>] :
        n \in { 0, MinContent - 1, MinContent, MinContent + 1 } } \cup
    { [kind |-> "text", text |-> Body(MinContent)] }

\* convert_url_to_markdown: None unless the export has MinContent characters
\* once stripped
ConvertUrlToMarkdown(d) ==
    IF d.kind # "text" THEN NoText
    ELSE IF d.text = <<>> \/ Len(Strip(d.text)) < MinContent THEN NoText
    ELSE Strip(d.text)

\* the markdown of an element a content selector matched, or the joined
\* paragraphs of the page: n characters
PageTexts == { Body(n) : n \in { 0, MinContent - 1, MinContent, MinContent + 1 } }

\* what the GET of the page gives: it raises, or a page with a title or
\* none, the elements the content selectors match, in selector order, and
\* its paragraphs if it has any
Pages ==
    { [kind |-> "raise", title |-> "", candidates |-> <<>>, paragraphs |-> NoText] } \cup
    { [kind |-> "page", title |-> t, candidates |-> c, paragraphs |-> p] :
        t \in { "", "page title" },
        c \in SeqsUpTo(PageTexts, MaxSel),
        p \in { NoText } \cup (PageTexts \ { <<>> }) }

\* the first text of the list with more than MinContent characters, if any
RECURSIVE FirstLongEnough(_)
FirstLongEnough(texts) ==
    IF texts = <<>> THEN NoText
    ELSE IF Len(Head(texts)) > MinContent THEN Head(texts)
    ELSE FirstLongEnough(Tail(texts))

\* _extract_article_content
ExtractArticleContentAnyLength(p) ==
    IF p.candidates # <<>> THEN Head(p.candidates)
    ELSE p.paragraphs

ExtractArticleContent(p) ==
    LET selected == FirstLongEnough(p.candidates)
    IN IF selected # NoText THEN selected
       ELSE IF p.paragraphs # NoText /\ Len(p.paragraphs) > MinContent THEN p.paragraphs
       ELSE NoText

\* the configurations of a generic-web source
WebConfigs ==
    { NoConfig, EmptyConfig } \cup
    { [EmptyConfig EXCEPT !.keys = k, !.use_docling = u, !.fallback_to_bs4 = f] :
        k \in (SUBSET { "use_docling", "fallback_to_bs4" }) \ { {} },
        u \in BOOLEAN, f \in BOOLEAN }

\* the title sources of a page: the content of the og:title meta tag, the
\* text of the first h1 and the text of the title tag; None where the page
\* has no such tag (or, for the meta tag, no content attribute)
Heads ==
    { [og_title |-> o, h1 |-> h, title |-> t] :
        o \in { None, "", " ", "og title" },
        h \in { None, "", " ", " heading " },
        t \in { None, "", " document title " } }

\* str.strip on the texts of Heads
StripText(t) ==
    IF t = " " THEN ""
    ELSE IF t = " heading " THEN "heading"
    ELSE IF t = " document title " THEN "document title"
    ELSE t

\* _extract_title
ExtractTitle(h, url) ==
    IF h.og_title # None /\ h.og_title # "" THEN h.og_title
    ELSE IF h.h1 # None THEN StripText(h.h1)
    ELSE IF h.title # None THEN StripText(h.title)
    ELSE url

\* BeautifulSoup(response.content) and _extract_title: the page with the
\* title extracted from its heads
ParsedPage(p, url) == [p EXCEPT !.title = ExtractTitle(p.heads, url)]

\* the article of scrape
WebArticle(url, title, content) ==
    [title |-> IF title # "" THEN title ELSE url, url |-> url, content |-> content,
     transcript |-> None, published_date |-> None]

\* the selector-based part of scrape, and its end: the page is requested and
\* its content extracted unless content is there already
ScrapeWithSelectors(url, content, title, p, trace) ==
    IF Truthy(content)
    THEN [result |-> << WebArticle(url, title, content) >>, trace |-> trace]
    ELSE IF p.kind = "raise"
    THEN [result |-> <<>>, trace |-> Append(trace, "request")]
    ELSE LET extracted == ExtractArticleContent(p)
             done == trace \o << "request", "selectors" >>
         IN IF Truthy(extracted)
            THEN [result |-> << WebArticle(url, p.title, extracted) >>, trace |-> done]
            ELSE [result |-> <<>>, trace |-> done]

\* scrape: the list returned and the strategies run, in order
WebScrapeAlwaysFallback(url, cfg, d, p) ==
    IF ConfigGet(cfg, "use_docling", FALSE)
    THEN LET content == ConvertUrlToMarkdown(d)
         IN IF Truthy(content)
            THEN IF p.kind = "raise"
                 THEN [result |-> <<>>, trace |-> << "docling", "request" >>]
                 ELSE ScrapeWithSelectors(url, content, p.title, p, << "docling", "request" >>)
            ELSE ScrapeWithSelectors(url, NoText, "", p, << "docling" >>)
    ELSE ScrapeWithSelectors(url, NoText, "", p, <<>>)

WebScrape(url, cfg, d, p) ==
    IF ConfigGet(cfg, "use_docling", FALSE)
    THEN LET content == ConvertUrlToMarkdown(d)
         IN IF Truthy(content)
            THEN IF p.kind = "raise"
                 THEN [result |-> <<>>, trace |-> << "docling", "request" >>]
                 ELSE ScrapeWithSelectors(url, content, p.title, p, << "docling", "request" >>)
            ELSE IF ~ConfigGet(cfg, "fallback_to_bs4", TRUE)
            THEN [result |-> <<>>, trace |-> << "docling" >>]
            ELSE ScrapeWithSelectors(url, NoText, "", p, << "docling" >>)
    ELSE ScrapeWithSelectors(url, NoText, "", p, <<>>)

(***************************************************************************)
(* YouTubeScraper.scrape.                                                  *)
(***************************************************************************)
\* the characters a video id may have (YouTubeVideo.validate_video_id)
AllowedIdChars ==
    { "a", "b", "c", "d", "e", "f", "g", "h", "i", "j", "k", "l", "m", "n", "o", "p", "q",
      "r", "s", "t", "u", "v", "w", "x", "y", "z", "A", "B", "C", "D", "E", "F", "G", "H",
      "I", "J", "K", "L", "M", "N", "O", "P", "Q", "R", "S", "T", "U", "V", "W", "X", "Y",
      "Z", "0", "1", "2", "3", "4", "5", "6", "7", "8", "9", "-", "_" }

\* the number of characters of a video id
VideoIdLen == 11

\* a publish date datetime.fromisoformat reads, and one it does not
IsoDate == "2024-05-01T10:00:00Z"
BadDate == "1 May 2024"

VideoDefects ==
    { "none", "no id", "no title", "no channel", "no date", "short id", "long id",
      "bad id", "empty title", "blank channel", "bad date" }

\* what the transcript API does for a video: it raises TranscriptsDisabled,
\* NoTranscriptFound or another exception, or returns a blank or a real text
TranscriptOutcomes == { "disabled", "not found", "error", "blank", "text" }

\* item i of a listing: the search result (NoText or None where a field is
\* missing; the description has i characters) and the transcript outcome
VideoItem(i, defect, outcome) ==
    [videoId |-> CASE defect = "no id" -> NoText
                   [] defect = "short id" -> Body(VideoIdLen - 1)
                   [] defect = "long id" -> Body(VideoIdLen + 1)
                   [] defect = "bad id" -> << "!" >> \o Body(VideoIdLen - 1)
                   [] OTHER -> Body(VideoIdLen),
     title |-> CASE defect = "no title" -> NoText
                 [] defect = "empty title" -> <<>>
                 [] OTHER -> << "t" >>,
     description |-> Body(i),
     channelId |-> CASE defect = "no channel" -> NoText
                     [] defect = "blank channel" -> << " " >>
                     [] OTHER -> << "c" >>,
     publishedAt |-> CASE defect = "no date" -> None
                       [] defect = "bad date" -> BadDate
                       [] OTHER -> IsoDate,
     transcript |-> outcome]

\* the listings of the model: up to MaxVideos items
Listings ==
    { [i \in 1..Len(q) |-> VideoItem(i, q[i][1], q[i][2])] :
        q \in SeqsUpTo(VideoDefects \X TranscriptOutcomes, MaxVideos) }

\* _get_video_transcript: the text, or None
GetVideoTranscript(outcome) ==
    IF outcome = "text" THEN Transcript(2) ELSE NoText

\* _parse_video_to_model: the YouTubeVideo in a list, or the empty list for
\* None (a missing key, an unreadable date or a failed validation)
ParseVideoToModelTranscriptRequired(video) ==
    IF video.videoId = NoText \/ video.title = NoText \/ video.channelId = NoText
       \/ video.publishedAt = None
    THEN <<>>
    ELSE IF video.publishedAt # IsoDate THEN <<>>
    ELSE IF GetVideoTranscript(video.transcript) = NoText THEN <<>>
    ELSE IF \/ Len(video.videoId) # VideoIdLen
            \/ Range(video.videoId) \ AllowedIdChars # {}
            \/ Len(video.title) < 1
            \/ Strip(video.channelId) = <<>>
    THEN <<>>
    ELSE << [video_id |-> video.videoId, title |-> video.title,
             url |-> << "https://www.youtube.com/watch?v=" >> \o video.videoId,
             description |-> video.description, published_at |-> video.publishedAt,
             transcript |-> GetVideoTranscript(video.transcript)] >>

ParseVideoToModel(video) ==
    IF video.videoId = NoText \/ video.title = NoText \/ video.channelId = NoText
       \/ video.publishedAt = None
    THEN <<>>
    ELSE IF video.publishedAt # IsoDate THEN <<>>
    ELSE IF \/ Len(video.videoId) # VideoIdLen
            \/ Range(video.videoId) \ AllowedIdChars # {}
            \/ Len(video.title) < 1
            \/ Strip(video.channelId) = <<>>
    THEN <<>>
    ELSE << [video_id |-> video.videoId, title |-> video.title,
             url |-> << "https://www.youtube.com/watch?v=" >> \o video.videoId,
             description |-> video.description, published_at |-> video.publishedAt,
             transcript |-> GetVideoTranscript(video.transcript)] >>

\* the loop of scrape from video i on
RECURSIVE YouTubeScrapeLoop(_, _)
YouTubeScrapeLoop(videos, i) ==
    IF i > Len(videos) THEN <<>>
    ELSE LET parsed == ParseVideoToModel(videos[i])
             found == [k \in 1..Len(parsed) |->
                          [title |-> parsed[k].title, url |-> parsed[k].url,
                           content |-> parsed[k].description,
                           transcript |-> parsed[k].transcript,
                           published_date |-> parsed[k].published_at]]
         IN found \o YouTubeScrapeLoop(videos, i + 1)

\* scrape, given the listing of the channel
YouTubeScrape(videos) == YouTubeScrapeLoop(videos, 1)

(***************************************************************************)
(* The run ledger: DigestRun rows and the operations on them.              *)
(***************************************************************************)
\* create_digest_run: a row with started_at; completed_at 0 stands for NULL.
\* execution (the execution that created the row) and completions (the
\* number of times complete_digest_run wrote it) are history fields
NewDigestRun(id, clock, execution) ==
    [id |-> id, started_at |-> clock, completed_at |-> 0, success |-> FALSE,
     articles_processed |-> 0, overall_summary |-> None, error_message |-> None,
     email_sent |-> FALSE, execution |-> execution, completions |-> 0]

\* complete_digest_run: the row with the id, if there is one, is overwritten
CompleteDigestRun(rows, digest_run_id, success, articles_processed, overall_summary, error_message, email_sent, clock) ==
    [i \in 1..Len(rows) |->
        IF rows[i].id = digest_run_id
        THEN [rows[i] EXCEPT !.completed_at = clock, !.success = success,
                             !.articles_processed = articles_processed,
                             !.overall_summary = overall_summary,
                             !.error_message = error_message,
                             !.email_sent = email_sent,
                             !.completions = @ + 1]
        ELSE rows[i]]

\* the steps of run_daily_digest between the creation of the run and its
\* completion, and the step that follows each
StepAfter(step, found) ==
    CASE step = "sources" -> "scrape"
      [] step = "scrape" -> IF found > 0 THEN "digest" ELSE "recent"
      [] step = "recent" -> IF found > 0 THEN "digest" ELSE "complete"
      [] step = "digest" -> "email"
      [] step = "email" -> "complete"

(***************************************************************************)
(* BaseScraper._create_session and _make_request: the retry strategy of    *)
(* the HTTP session.                                                       *)
(***************************************************************************)
\* Retry(total=3): the number of retries allowed
RetryTotal == 3
StatusForcelist == { 429, 500, 502, 503, 504 }
AllowedMethods == { "HEAD", "GET", "OPTIONS" }
\* the statuses for which Retry honours a Retry-After header
RetryAfterStatusCodes == { 413, 429, 503 }

\* what one send of the request meets: no connection (status 0), or a
\* response with a status, with or without a Retry-After header
ServerAnswers ==
    { [status |-> 0, retry_after |-> FALSE], [status |-> 413, retry_after |-> TRUE] } \cup
    { [status |-> c, retry_after |-> FALSE] : c \in { 200, 404, 413 } \cup StatusForcelist }

\* Retry.is_retry: is a response with the status to be retried
IsRetryAnyMethod(m, total, answer) ==
    \/ answer.status \in StatusForcelist
    \/ total > 0 /\ answer.retry_after /\ answer.status \in RetryAfterStatusCodes

IsRetry(m, total, answer) ==
    /\ m \in AllowedMethods
    /\ \/ answer.status \in StatusForcelist
       \/ total > 0 /\ answer.retry_after /\ answer.status \in RetryAfterStatusCodes

\* session.request and raise_for_status after one send: the retries left, and
\* the result if the request is over (None: it is sent again)
AfterSend(m, total, answer) ==
    IF answer.status = 0
    THEN [total |-> total - 1,
          result |-> IF total - 1 < 0 THEN "ConnectionError" ELSE None]
    ELSE IF IsRetry(m, total, answer)
    THEN [total |-> total - 1,
          result |-> IF total - 1 < 0 THEN "RetryError" ELSE None]
    ELSE [total |-> total,
          result |-> IF answer.status >= 400 THEN "HTTPError" ELSE "Response"]

(***************************************************************************)
(* State of the pipeline.                                                  *)
(***************************************************************************)
VARIABLES
    sources,          \* table sources: committed rows in insertion order
    articles,         \* table articles: committed rows in insertion order
    sessionOk,        \* the session of this execution can still execute statements
    nextSourceId,     \* sources.id sequence
    nextArticleId,    \* articles.id sequence
    now,              \* datetime.utcnow(), a logical clock
    pc,               \* position of run_daily_digest
    runs,             \* executions started
    faults,           \* store failures injected so far
    declared,         \* the declared-sources file (config/sources.yaml)
    sourcesConfig,    \* sources_config of the current execution
    createdSources,   \* rows the last create_sources_from_config inserted
    passSources,      \* sources of scrape_all_sources
    idx,              \* index in passSources of the next source to scrape
    allArticles,      \* all_articles of scrape_all_sources
    scraped,          \* what the connector of the last source did
    saved,            \* what scrape_source returned for the last source
    skipped,          \* URLs the last save printed as already existing
    connectorFailed,  \* ids of the sources of this pass whose connector raised
    saveFailed,       \* ids of the sources of this pass whose save raised
    passStart,        \* Len(articles) when the pass began
    newArticles,      \* new_articles: what scrape_all_sources returned
    error,            \* the operation whose exception reached run_daily_digest
    article,          \* the article generate_article_snippet is called with
    reply,            \* what the completion endpoint answers to its request
    spc,              \* position of generate_article_snippet
    requests,         \* the completion requests sent: title and article text
    summary           \* the ArticleSummary returned

\* DigestService.generate_digest and AISummarizer.generate_overall_summary
VARIABLES
    entry,            \* the function called: generate_digest or generate_overall_summary
    digestArticles,   \* the articles argument of generate_digest
    article_summaries,\* article_summaries: the list built, or the argument given
    dpc,              \* position of the call
    articlesTx,       \* table articles as the open transaction sees it
    events,           \* requests sent and store writes done by the call, in order
    overallReply,     \* what the completion endpoint answered to the aggregate request
    digest            \* the DigestSummary returned

\* run_daily_digest and the run ledger
VARIABLES
    rpc,              \* position of run_daily_digest: the step it is about to take
    digestRuns,       \* table digest_runs: committed rows in insertion order
    nextRunId,        \* digest_runs.id sequence
    digest_run_id,    \* digest_run_id of the execution; 0 stands for None
    found,            \* len(new_articles)
    emailSent,        \* email_sent
    failure,          \* the step whose exception reached the except clause
    exitCode          \* 1 after sys.exit(1), else 0

\* a request through the HTTP session of a scraper
VARIABLES
    hpc,              \* position of the request
    method,           \* the method of the request
    retriesLeft,      \* total of the Retry object in force
    sends,            \* what each send of the request met, in order
    httpResult        \* the response returned or the exception raised

\* the source connectors
VARIABLES
    cpc,              \* position of the connector call
    settings,         \* get_settings()
    config,           \* the config argument of scrape (source.config)
    feed,             \* feed.entries of the parsed feed, or the videos listed
    docling,          \* what docling does with the URL
    page,             \* what the GET of the URL gives
    trace,            \* the strategies and requests scrape ran, or what it printed, in order
    scrapeResult      \* what scrape returned

\* two ingestion passes on one store
VARIABLES
    passes            \* per pass: the scrape_source call it runs and its open transaction

ingestVars == << sources, articles, sessionOk, nextSourceId, nextArticleId, now, pc,
                 runs, faults, declared, sourcesConfig, createdSources, passSources, idx,
                 allArticles, scraped, saved, skipped, connectorFailed, saveFailed,
                 passStart, newArticles, error >>

sumVars == << article, reply, spc, requests, summary >>

digestVars == << entry, digestArticles, article_summaries, dpc, articlesTx, events,
                 overallReply, digest >>

connVars == << cpc, settings, config, feed, docling, page, trace, scrapeResult >>

ledgerVars == << rpc, digestRuns, nextRunId, digest_run_id, found, emailSent, failure,
                 exitCode >>

httpVars == << hpc, method, retriesLeft, sends, httpResult >>

raceVars == << passes >>

restVars == << digestVars, connVars, ledgerVars, httpVars, raceVars >>

vars == << ingestVars, sumVars, restVars >>

passVars == << passSources, idx, allArticles, scraped, saved, skipped, connectorFailed,
               saveFailed, passStart, newArticles >>

NoConnectorResult == [raised |-> FALSE, batch |-> <<>>]

\* no call of generate_article_snippet is under way
SummarizerOff ==
    /\ article = ArticleWith(NoText, NoText)
    /\ reply = [kind |-> "raise", text |-> <<>>]
    /\ spc = "off"
    /\ requests = <<>>
    /\ summary = None

\* no call of generate_digest or generate_overall_summary is under way
DigestOff ==
    /\ entry = None
    /\ digestArticles = <<>>
    /\ article_summaries = <<>>
    /\ dpc = "off"
    /\ articlesTx = <<>>
    /\ events = <<>>
    /\ overallReply = None
    /\ digest = None

\* no connector call is under way
ConnectorsOff ==
    /\ cpc = "off"
    /\ settings = [max_articles_per_source |-> 10]
    /\ config = NoConfig
    /\ feed = <<>>
    /\ docling = [kind |-> "none", text |-> <<>>]
    /\ page = [kind |-> "raise", title |-> "", candidates |-> <<>>, paragraphs |-> NoText]
    /\ trace = <<>>
    /\ scrapeResult = None

\* no execution of the ledger model is under way
LedgerOff ==
    /\ rpc = "off"
    /\ digestRuns = <<>>
    /\ nextRunId = 1
    /\ digest_run_id = 0
    /\ found = 0
    /\ emailSent = FALSE
    /\ failure = None
    /\ exitCode = 0

\* no request is under way
HttpOff ==
    /\ hpc = "off"
    /\ method = "GET"
    /\ retriesLeft = RetryTotal
    /\ sends = <<>>
    /\ httpResult = None

RaceOff == passes = <<>>

RestOff == DigestOff /\ ConnectorsOff /\ LedgerOff /\ HttpOff /\ RaceOff

InitIngest ==
    /\ sources = <<>>
    /\ articles = <<>>
    /\ sessionOk = TRUE
    /\ nextSourceId = 1
    /\ nextArticleId = 1
    /\ now = 0
    /\ pc = "idle"
    /\ runs = 0
    /\ faults = 0
    /\ declared \in DeclaredLists
    /\ sourcesConfig = <<>>
    /\ createdSources = <<>>
    /\ passSources = <<>>
    /\ idx = 1
    /\ allArticles = <<>>
    /\ scraped = NoConnectorResult
    /\ saved = <<>>
    /\ skipped = <<>>
    /\ connectorFailed = {}
    /\ saveFailed = {}
    /\ passStart = 0
    /\ newArticles = <<>>
    /\ error = None
    /\ SummarizerOff
    /\ RestOff

Init == InitIngest

\* the values the locals of run_daily_digest have outside an execution
ResetLocals ==
    /\ sourcesConfig' = <<>>
    /\ createdSources' = <<>>
    /\ passSources' = <<>>
    /\ idx' = 1
    /\ allArticles' = <<>>
    /\ scraped' = NoConnectorResult
    /\ saved' = <<>>
    /\ skipped' = <<>>
    /\ connectorFailed' = {}
    /\ saveFailed' = {}
    /\ passStart' = 0
    /\ newArticles' = <<>>

\* run_daily_digest up to the loading of the declared sources: a new session
\* (get_db) at a later time
StartRun ==
    /\ UNCHANGED << sumVars, restVars >>
    /\ pc = "idle"
    /\ runs < MaxRuns
    /\ runs' = runs + 1
    /\ now' = now + 1
    /\ sessionOk' = TRUE
    /\ pc' = "config"
    /\ error' = None
    /\ UNCHANGED << sources, articles, nextSourceId, nextArticleId, faults, declared,
                    sourcesConfig, createdSources >>
    /\ UNCHANGED passVars

\* load_sources_config and, for a non-empty list, create_sources_from_config
LoadSources ==
    /\ UNCHANGED << sumVars, restVars >>
    /\ pc = "config"
    /\ \E cfg \in { declared }, commitFails \in BOOLEAN :
         /\ commitFails => (cfg # <<>> /\ faults < MaxFaults)
         /\ sourcesConfig' = cfg
         /\ IF cfg = <<>>
            THEN /\ pc' = "ready"
                 /\ UNCHANGED << sources, nextSourceId, createdSources, faults, error,
                                 sessionOk >>
            ELSE LET r == CreateSourcesFromConfig(
                              [committed |-> sources, flushed |-> <<>>,
                               nextId |-> nextSourceId], cfg, commitFails)
                 IN /\ sources' = r.ss.committed
                    /\ nextSourceId' = r.ss.nextId
                    /\ createdSources' = r.created
                    /\ faults' = IF commitFails THEN faults + 1 ELSE faults
                    /\ sessionOk' = ~r.raised
                    /\ pc' = IF r.raised THEN "failed" ELSE "ready"
                    /\ error' = IF r.raised THEN "create_sources_from_config" ELSE None
    /\ UNCHANGED << articles, nextArticleId, now, runs, declared >>
    /\ UNCHANGED passVars

\* scrape_all_sources up to its loop: get_active_sources
BeginPass ==
    /\ UNCHANGED << sumVars, restVars >>
    /\ pc = "ready"
    /\ passSources' = GetActiveSources(sources)
    /\ idx' = 1
    /\ allArticles' = <<>>
    /\ passStart' = Len(articles)
    /\ pc' = "scraping"
    /\ UNCHANGED << sources, articles, sessionOk, nextSourceId, nextArticleId, now, runs,
                    faults, declared, sourcesConfig, createdSources, scraped, saved,
                    skipped, connectorFailed, saveFailed, newArticles, error >>

\* one iteration of the loop of scrape_all_sources: scrape_source, then
\* all_articles.extend
ScrapeNext ==
    /\ UNCHANGED << sumVars, restVars >>
    /\ pc = "scraping"
    /\ idx <= Len(passSources)
    /\ LET source == passSources[idx]
       IN \E conn \in ConnectorResults(source.source_type) :
          \E fault \in FaultPoints(conn.batch) :
            /\ fault # NoFault => (faults < MaxFaults /\ sessionOk)
            /\ LET r == ScrapeSource([committed |-> articles, pending |-> <<>>,
                                      ok |-> sessionOk, nextId |-> nextArticleId],
                                     source, conn, fault, now)
               IN /\ fault # NoFault => r.injected
                  /\ articles' = r.db.committed
                  /\ sessionOk' = r.db.ok
                  /\ nextArticleId' = r.db.nextId
                  /\ faults' = IF fault # NoFault THEN faults + 1 ELSE faults
                  /\ scraped' = conn
                  /\ saved' = r.ret
                  /\ skipped' = r.skipped
                  /\ connectorFailed' = IF conn.raised THEN connectorFailed \cup { source.id }
                                        ELSE connectorFailed
                  /\ saveFailed' = IF ~conn.raised /\ (r.raised \/ ~r.db.ok)
                                   THEN saveFailed \cup { source.id } ELSE saveFailed
                  /\ IF r.raised
                     THEN /\ pc' = "failed"
                          /\ error' = "scrape_all_sources"
                          /\ UNCHANGED << allArticles, idx >>
                     ELSE /\ allArticles' = allArticles \o r.ret
                          /\ idx' = idx + 1
                          /\ UNCHANGED << pc, error >>
    /\ UNCHANGED << sources, nextSourceId, now, runs, declared, sourcesConfig,
                    createdSources, passSources, passStart, newArticles >>

\* the end of scrape_all_sources: return all_articles
EndPass ==
    /\ UNCHANGED << sumVars, restVars >>
    /\ pc = "scraping"
    /\ idx > Len(passSources)
    /\ newArticles' = allArticles
    /\ pc' = "returned"
    /\ UNCHANGED << sources, articles, sessionOk, nextSourceId, nextArticleId, now, runs,
                    faults, declared, sourcesConfig, createdSources, passSources, idx,
                    allArticles, scraped, saved, skipped, connectorFailed, saveFailed,
                    passStart, error >>

\* the rest of the execution after the pass: with a session that refuses
\* statements the next store call raises, otherwise get_db commits and closes
FinishRun ==
    /\ UNCHANGED << sumVars, restVars >>
    /\ pc = "returned"
    /\ IF sessionOk
       THEN pc' = "idle" /\ UNCHANGED error /\ ResetLocals
       ELSE pc' = "failed" /\ error' = "store"
            /\ UNCHANGED << sourcesConfig, createdSources >> /\ UNCHANGED passVars
    /\ UNCHANGED << sources, articles, sessionOk, nextSourceId, nextArticleId, now, runs,
                    faults, declared >>

\* the except branch of run_daily_digest: get_db has rolled the session back
FailRun ==
    /\ UNCHANGED << sumVars, restVars >>
    /\ pc = "failed"
    /\ pc' = "idle"
    /\ ResetLocals
    /\ UNCHANGED << sources, articles, sessionOk, nextSourceId, nextArticleId, now, runs,
                    faults, declared, error >>

Next ==
    \/ StartRun
    \/ LoadSources
    \/ BeginPass
    \/ ScrapeNext
    \/ EndPass
    \/ FinishRun
    \/ FailRun

Spec == Init /\ [][Next]_vars

(***************************************************************************)
(* Source reconciliation on its own: create_sources_from_config applied    *)
(* again and again, to any declared list of up to MaxCfg entries (repeated *)
(* URLs included), the file being edited between two executions.           *)
(***************************************************************************)
\* the entries the declared list is written from in this model: two URLs,
\* each active or not
ReconcileEntries == { e \in ConfigEntries : e.url \in { "sA", "sB" } }

InitReconcile ==
    /\ sources = <<>>
    /\ articles = <<>>
    /\ sessionOk = TRUE
    /\ nextSourceId = 1
    /\ nextArticleId = 1
    /\ now = 1
    /\ pc = "config"
    /\ runs = 1
    /\ faults = 0
    /\ declared \in SeqsUpTo(ReconcileEntries, MaxCfg)
    /\ sourcesConfig = <<>>
    /\ createdSources = <<>>
    /\ passSources = <<>>
    /\ idx = 1
    /\ allArticles = <<>>
    /\ scraped = NoConnectorResult
    /\ saved = <<>>
    /\ skipped = <<>>
    /\ connectorFailed = {}
    /\ saveFailed = {}
    /\ passStart = 0
    /\ newArticles = <<>>
    /\ error = None
    /\ SummarizerOff
    /\ RestOff

\* the next execution, with a new session, after the declared-sources file
\* was rewritten (possibly to the same list); sourcesConfig and error still
\* tell what the previous application was given and how it ended
EditSourcesFile ==
    /\ UNCHANGED << sumVars, restVars >>
    /\ pc \in { "ready", "failed" }
    /\ runs < MaxApply
    /\ runs' = runs + 1
    /\ now' = now + 1
    /\ declared' \in SeqsUpTo(ReconcileEntries, MaxCfg)
    /\ sessionOk' = TRUE
    /\ pc' = "config"
    /\ UNCHANGED << sources, articles, nextSourceId, nextArticleId, faults, sourcesConfig,
                    createdSources, error >>
    /\ UNCHANGED passVars

NextReconcile ==
    \/ LoadSources
    \/ EditSourcesFile

SpecReconcile == InitReconcile /\ [][NextReconcile]_vars

(***************************************************************************)
(* generate_article_snippet on its own: one call, for an article and a     *)
(* reply of the completion endpoint drawn in the initial state.            *)
(***************************************************************************)
InitSummarize ==
    /\ sources = <<>>
    /\ articles = <<>>
    /\ sessionOk = TRUE
    /\ nextSourceId = 1
    /\ nextArticleId = 1
    /\ now = 1
    /\ pc = "digest"
    /\ runs = 1
    /\ faults = 0
    /\ declared = <<>>
    /\ sourcesConfig = <<>>
    /\ createdSources = <<>>
    /\ passSources = <<>>
    /\ idx = 1
    /\ allArticles = <<>>
    /\ scraped = NoConnectorResult
    /\ saved = <<>>
    /\ skipped = <<>>
    /\ connectorFailed = {}
    /\ saveFailed = {}
    /\ passStart = 0
    /\ newArticles = <<>>
    /\ error = None
    /\ \E input \in (SmallArticles \X AllReplies) \cup (AllArticles \X FewReplies) :
         /\ article = input[1]
         /\ reply = input[2]
    /\ spc = "start"
    /\ requests = <<>>
    /\ summary = None
    /\ RestOff

\* generate_article_snippet up to the completion request: without text the
\* fallback summary is returned and no request is made
PrepareText ==
    /\ spc = "start"
    /\ LET text_to_analyze == TextToAnalyze(article.content, article.transcript)
       IN IF text_to_analyze = <<>>
          THEN /\ summary' = ArticleSummary(article, NotAvailableSnippet, <<>>)
               /\ spc' = "done"
               /\ UNCHANGED requests
          ELSE /\ requests' = Append(requests, [title |-> article.title,
                                                text |-> text_to_analyze])
               /\ spc' = "request"
               /\ UNCHANGED summary
    /\ UNCHANGED << article, reply >>
    /\ UNCHANGED << ingestVars, restVars >>

\* the completion request answered, the answer parsed, the summary returned
CompleteRequest ==
    /\ spc = "request"
    /\ summary' = SummaryOfReply(article, reply)
    /\ spc' = "done"
    /\ UNCHANGED << article, reply, requests >>
    /\ UNCHANGED << ingestVars, restVars >>

NextSummarize ==
    \/ PrepareText
    \/ CompleteRequest

SpecSummarize == InitSummarize /\ [][NextSummarize]_vars

(***************************************************************************)
(* generate_digest and generate_overall_summary on their own: one call,    *)
(* over articles of the store or over a given list of summaries.           *)
(***************************************************************************)
\* a stored article: its body is either one character or absent
StoredArticle(i, content) ==
    [id |-> i, source_id |-> 1, title |-> "T", url |-> << "u", i >>, content |-> content,
     summary |-> NoText, transcript |-> NoText, published_date |-> None, scraped_at |-> 1]

\* the article tables of the digest model: MaxDigest rows
DigestStores ==
    { [i \in 1..MaxDigest |-> StoredArticle(i, c[i])] :
        c \in [1..MaxDigest -> { Body(1), NoText }] }

\* the lists of distinct rows of a table
ArticleLists(rows) ==
    { [i \in 1..Len(ids) |-> rows[ids[i]]] :
        ids \in { q \in SeqsUpTo(1..Len(rows), Len(rows)) :
                    \A i, j \in 1..Len(q) : i # j => q[i] # q[j] } }

\* the summaries generate_overall_summary is given when called on its own
GivenSummaries(list) ==
    [i \in 1..Len(list) |-> ArticleSummary(list[i], << "a" >>, << << "b" >> >>)]

InitDigest ==
    /\ sources = <<>>
    /\ articles \in DigestStores
    /\ sessionOk = TRUE
    /\ nextSourceId = 1
    /\ nextArticleId = MaxDigest + 1
    /\ now = 1
    /\ pc = "digest"
    /\ runs = 1
    /\ faults = 0
    /\ declared = <<>>
    /\ sourcesConfig = <<>>
    /\ createdSources = <<>>
    /\ passSources = <<>>
    /\ idx = 1
    /\ allArticles = <<>>
    /\ scraped = NoConnectorResult
    /\ saved = <<>>
    /\ skipped = <<>>
    /\ connectorFailed = {}
    /\ saveFailed = {}
    /\ passStart = 0
    /\ newArticles = <<>>
    /\ error = None
    /\ SummarizerOff
    /\ entry \in { "generate_digest", "generate_overall_summary" }
    /\ digestArticles \in ArticleLists(articles)
    /\ article_summaries = IF entry = "generate_digest" THEN <<>>
                           ELSE GivenSummaries(digestArticles)
    /\ dpc = "start"
    /\ articlesTx = articles
    /\ events = <<>>
    /\ overallReply = None
    /\ digest = None
    /\ ConnectorsOff
    /\ LedgerOff
    /\ HttpOff
    /\ RaceOff

Event(op, id) == [op |-> op, id |-> id]

\* generate_digest up to its loop: an empty list gives the sentinel digest
GenerateDigestStart ==
    /\ entry = "generate_digest"
    /\ dpc = "start"
    /\ IF digestArticles = <<>>
       THEN /\ digest' = DigestSummary(NoNewArticlesSummary, <<>>, <<>>)
            /\ dpc' = "done"
       ELSE /\ dpc' = "loop"
            /\ UNCHANGED digest
    /\ UNCHANGED << entry, digestArticles, article_summaries, articlesTx, events,
                    overallReply >>
    /\ UNCHANGED << ingestVars, sumVars, connVars, ledgerVars, httpVars, raceVars >>

\* one iteration of the loop: generate_article_snippet, append, and
\* update_article_summary, whose flush may raise
SummarizeArticle ==
    /\ dpc = "loop"
    /\ Len(article_summaries) < Len(digestArticles)
    /\ \E itemReply \in ItemReplies, updateFails \in BOOLEAN :
         LET a == digestArticles[NextArticle(digestArticles, article_summaries)]
             r == GenerateArticleSnippet(a, itemReply)
             sent == [i \in 1..Len(r.sent) |-> Event("snippet_request", a.id)]
         IN /\ updateFails => faults < MaxFaults
            /\ article_summaries' = Append(article_summaries, r.summary)
            /\ IF updateFails
               THEN /\ events' = events \o sent \o << Event("summary", a.id) >>
                    /\ faults' = faults + 1
                    /\ sessionOk' = FALSE
                    /\ articlesTx' = articles
                    /\ dpc' = "raised"
               ELSE /\ events' = events \o sent \o
                                   << Event("summary", a.id), Event("update", a.id) >>
                    /\ articlesTx' = UpdateArticleSummary(articlesTx, a.id, r.summary.snippet)
                    /\ dpc' = "loop"
                    /\ UNCHANGED << faults, sessionOk >>
    /\ UNCHANGED << entry, digestArticles, overallReply, digest >>
    /\ UNCHANGED << sources, articles, nextSourceId, nextArticleId, now, pc, runs, declared,
                    sourcesConfig, createdSources, error >>
    /\ UNCHANGED << passVars, sumVars, connVars, ledgerVars, httpVars, raceVars >>

\* self.db.commit() after the loop
CommitSummaries ==
    /\ dpc = "loop"
    /\ Len(article_summaries) = Len(digestArticles)
    /\ \E commitFails \in BOOLEAN :
         /\ commitFails => faults < MaxFaults
         /\ IF commitFails
            THEN /\ faults' = faults + 1
                 /\ sessionOk' = FALSE
                 /\ articlesTx' = articles
                 /\ dpc' = "raised"
                 /\ UNCHANGED << articles, events >>
            ELSE /\ articles' = articlesTx
                 /\ events' = Append(events, Event("commit", 0))
                 /\ dpc' = "overall"
                 /\ UNCHANGED << faults, sessionOk, articlesTx >>
    /\ UNCHANGED << entry, digestArticles, article_summaries, overallReply, digest >>
    /\ UNCHANGED << sources, nextSourceId, nextArticleId, now, pc, runs, declared,
                    sourcesConfig, createdSources, error >>
    /\ UNCHANGED << passVars, sumVars, connVars, ledgerVars, httpVars, raceVars >>

\* generate_overall_summary, called by generate_digest or on its own
OverallSummary ==
    /\ \/ entry = "generate_digest" /\ dpc = "overall"
       \/ entry = "generate_overall_summary" /\ dpc = "start"
    /\ \E r \in OverallReplies :
         LET g == GenerateOverallSummary(article_summaries, r)
         IN /\ overallReply' = IF g.sent = <<>> THEN None ELSE r
            /\ events' = events \o [i \in 1..Len(g.sent) |-> Event("overall_request", g.sent[i])]
            /\ digest' = g.digest
    /\ dpc' = "done"
    /\ UNCHANGED << entry, digestArticles, article_summaries, articlesTx >>
    /\ UNCHANGED << ingestVars, sumVars, connVars, ledgerVars, httpVars, raceVars >>

NextDigest ==
    \/ GenerateDigestStart
    \/ SummarizeArticle
    \/ CommitSummaries
    \/ OverallSummary

SpecDigest == InitDigest /\ [][NextDigest]_vars

(***************************************************************************)
(* RSSFeedScraper.scrape on its own: one call, on a parsed feed.           *)
(***************************************************************************)
\* the ingestion pipeline, the summarizer and the digest service at rest
PipelineOff ==
    /\ sources = <<>>
    /\ articles = <<>>
    /\ sessionOk = TRUE
    /\ nextSourceId = 1
    /\ nextArticleId = 1
    /\ now = 1
    /\ pc = "idle"
    /\ runs = 0
    /\ faults = 0
    /\ declared = <<>>
    /\ sourcesConfig = <<>>
    /\ createdSources = <<>>
    /\ passSources = <<>>
    /\ idx = 1
    /\ allArticles = <<>>
    /\ scraped = NoConnectorResult
    /\ saved = <<>>
    /\ skipped = <<>>
    /\ connectorFailed = {}
    /\ saveFailed = {}
    /\ passStart = 0
    /\ newArticles = <<>>
    /\ error = None
    /\ SummarizerOff
    /\ DigestOff

InitFeed ==
    /\ PipelineOff
    /\ LedgerOff
    /\ HttpOff
    /\ RaceOff
    /\ cpc = "rss"
    /\ settings \in { [max_articles_per_source |-> m] : m \in { 2, 10 } }
    /\ config \in FeedConfigs
    /\ feed \in Feeds
    /\ docling = [kind |-> "none", text |-> <<>>]
    /\ page = [kind |-> "raise", title |-> "", candidates |-> <<>>, paragraphs |-> NoText]
    /\ trace = <<>>
    /\ scrapeResult = None

\* RSSFeedScraper.scrape
RssFeedScrape ==
    /\ cpc = "rss"
    /\ scrapeResult' = RssScrape(feed, MaxArticles(config, settings.max_articles_per_source))
    /\ trace' = RssScrapeLog(feed, MaxArticles(config, settings.max_articles_per_source))
    /\ cpc' = "returned"
    /\ UNCHANGED << settings, config, feed, docling, page >>
    /\ UNCHANGED << ingestVars, sumVars, digestVars, ledgerVars, httpVars, raceVars >>

NextFeed == RssFeedScrape

SpecFeed == InitFeed /\ [][NextFeed]_vars

(***************************************************************************)
(* WebScraper.scrape on its own: one call, on a URL for which docling and  *)
(* the GET of the page behave as drawn in the initial state.               *)
(***************************************************************************)
InitWeb ==
    /\ PipelineOff
    /\ LedgerOff
    /\ HttpOff
    /\ RaceOff
    /\ cpc = "web"
    /\ settings = [max_articles_per_source |-> 10]
    /\ config \in WebConfigs
    /\ feed = <<>>
    /\ docling \in DoclingOutcomes
    /\ page \in Pages
    /\ trace = <<>>
    /\ scrapeResult = None

\* WebScraper.scrape
WebScraperScrape ==
    /\ cpc = "web"
    /\ LET r == WebScrape("sC", config, docling, page)
       IN /\ scrapeResult' = r.result
          /\ trace' = r.trace
    /\ cpc' = "returned"
    /\ UNCHANGED << settings, config, feed, docling, page >>
    /\ UNCHANGED << ingestVars, sumVars, digestVars, ledgerVars, httpVars, raceVars >>

NextWeb == WebScraperScrape

SpecWeb == InitWeb /\ [][NextWeb]_vars

(***************************************************************************)
(* run_daily_digest and the run ledger on their own: executions one after  *)
(* the other; each step between the creation of the run and its completion *)
(* either returns or raises, and so does each write to the store.          *)
(***************************************************************************)
InitRun ==
    /\ PipelineOff
    /\ ConnectorsOff
    /\ HttpOff
    /\ RaceOff
    /\ rpc = "idle"
    /\ digestRuns = <<>>
    /\ nextRunId = 1
    /\ digest_run_id = 0
    /\ found = 0
    /\ emailSent = FALSE
    /\ failure = None
    /\ exitCode = 0

\* what the ledger model leaves alone
offLedger == << sources, articles, sessionOk, nextSourceId, nextArticleId, pc, faults,
                declared, sourcesConfig, createdSources, error, passVars, sumVars,
                digestVars, connVars, httpVars, raceVars >>

\* a new process runs run_daily_digest: digest_run_id = None
StartExecution ==
    /\ rpc \in { "idle", "exited" }
    /\ runs < MaxRuns
    /\ runs' = runs + 1
    /\ rpc' = "init_db"
    /\ digest_run_id' = 0
    /\ found' = 0
    /\ emailSent' = FALSE
    /\ failure' = None
    /\ exitCode' = 0
    /\ UNCHANGED << digestRuns, nextRunId, now >>
    /\ UNCHANGED offLedger

\* init_db()
InitDb ==
    /\ rpc = "init_db"
    /\ \E raises \in BOOLEAN :
         /\ rpc' = IF raises THEN "except" ELSE "create_run"
         /\ failure' = IF raises THEN "init_db" ELSE failure
    /\ UNCHANGED << digestRuns, nextRunId, digest_run_id, found, emailSent, exitCode, runs,
                    now >>
    /\ UNCHANGED offLedger

\* create_digest_run(), digest_run_id = digest_run.id, db.commit(): the flush
\* or the commit may raise; a commit that raises leaves the id but no row
CreateDigestRun ==
    /\ rpc = "create_run"
    /\ \E outcome \in { "flush raises", "commit raises", "committed" } :
         /\ digest_run_id' = IF outcome = "flush raises" THEN 0 ELSE nextRunId
         /\ nextRunId' = IF outcome = "flush raises" THEN nextRunId ELSE nextRunId + 1
         /\ IF outcome = "committed"
            THEN /\ digestRuns' = Append(digestRuns, NewDigestRun(nextRunId, now, runs))
                 /\ rpc' = "sources"
                 /\ UNCHANGED failure
            ELSE /\ UNCHANGED digestRuns
                 /\ rpc' = "except"
                 /\ failure' = "create_digest_run"
    /\ now' = now + 1
    /\ UNCHANGED << found, emailSent, exitCode, runs >>
    /\ UNCHANGED offLedger

\* one of the steps between creation and completion: source reconciliation,
\* ingestion, the look for recent articles, digest generation, delivery
PipelineStep ==
    /\ rpc \in { "sources", "scrape", "recent", "digest", "email" }
    /\ \E raises \in BOOLEAN, n \in 0..1, sent \in BOOLEAN :
         IF raises
         THEN /\ rpc' = "except"
              /\ failure' = rpc
              /\ UNCHANGED << found, emailSent >>
         ELSE /\ found' = IF rpc \in { "scrape", "recent" } THEN n ELSE found
              /\ emailSent' = IF rpc = "email" THEN sent ELSE emailSent
              /\ rpc' = StepAfter(rpc, found')
              /\ UNCHANGED failure
    /\ UNCHANGED << digestRuns, nextRunId, digest_run_id, exitCode, runs, now >>
    /\ UNCHANGED offLedger

\* complete_digest_run(success=True) and db.commit(), in the branch without
\* articles or at the end; get_db then commits nothing and closes
CompleteRun ==
    /\ rpc = "complete"
    /\ \E outcome \in { "flush raises", "commit raises", "committed" } :
         IF outcome = "committed"
         THEN /\ digestRuns' = CompleteDigestRun(digestRuns, digest_run_id, TRUE, found,
                                   IF found = 0 THEN "No new articles to process."
                                   ELSE "overall summary",
                                   None, emailSent, now)
              /\ rpc' = "exited"
              /\ UNCHANGED failure
         ELSE /\ UNCHANGED digestRuns
              /\ rpc' = "except"
              /\ failure' = "complete_digest_run"
    /\ now' = now + 1
    /\ UNCHANGED << nextRunId, digest_run_id, found, emailSent, exitCode, runs >>
    /\ UNCHANGED offLedger

\* the except clause: with a digest_run_id, complete_digest_run(success=False)
\* and commit in a session of its own, a failure of which is printed; then
\* sys.exit(1)
HandleFailure ==
    /\ rpc = "except"
    /\ \E raises \in BOOLEAN :
         digestRuns' = IF digest_run_id = 0 \/ raises THEN digestRuns
                       ELSE CompleteDigestRun(digestRuns, digest_run_id, FALSE, 0, None,
                                              failure, FALSE, now)
    /\ now' = now + 1
    /\ rpc' = "exited"
    /\ exitCode' = 1
    /\ UNCHANGED << nextRunId, digest_run_id, found, emailSent, failure, runs >>
    /\ UNCHANGED offLedger

NextRun ==
    \/ StartExecution
    \/ InitDb
    \/ CreateDigestRun
    \/ PipelineStep
    \/ CompleteRun
    \/ HandleFailure

SpecRun == InitRun /\ [][NextRun]_vars

(***************************************************************************)
(* One request through the HTTP session, the server answering each send as *)
(* it pleases.                                                             *)
(***************************************************************************)
InitHttp ==
    /\ PipelineOff
    /\ ConnectorsOff
    /\ LedgerOff
    /\ hpc = "sending"
    /\ method \in { "GET", "POST" }
    /\ retriesLeft = RetryTotal
    /\ sends = <<>>
    /\ httpResult = None
    /\ RaceOff

\* one send of the request and what the session does with the answer
SendRequest ==
    /\ hpc = "sending"
    /\ \E answer \in ServerAnswers :
         LET after == AfterSend(method, retriesLeft, answer)
         IN /\ sends' = Append(sends, answer)
            /\ retriesLeft' = after.total
            /\ httpResult' = after.result
            /\ hpc' = IF after.result = None THEN "sending" ELSE "done"
    /\ UNCHANGED method
    /\ UNCHANGED << ingestVars, sumVars, digestVars, connVars, ledgerVars, raceVars >>

NextHttp == SendRequest

SpecHttp == InitHttp /\ [][NextHttp]_vars

(***************************************************************************)
(* WebScraper.scrape on pages whose body is long enough, with every        *)
(* combination of title sources.                                           *)
(***************************************************************************)
\* pages that differ in their title sources only
TitledPages ==
    { [kind |-> "page", title |-> "", candidates |-> << Body(MinContent + 1) >>,
       paragraphs |-> NoText, heads |-> h] : h \in Heads }

InitTitle ==
    /\ PipelineOff
    /\ LedgerOff
    /\ HttpOff
    /\ RaceOff
    /\ cpc = "web"
    /\ settings = [max_articles_per_source |-> 10]
    /\ config \in { NoConfig, [EmptyConfig EXCEPT !.keys = { "use_docling" },
                                                  !.use_docling = TRUE] }
    /\ feed = <<>>
    /\ docling \in { [kind |-> "none", text |-> <<>>],
                     [kind |-> "text", text |-> Body(MinContent)] }
    /\ page \in TitledPages
    /\ trace = <<>>
    /\ scrapeResult = None

\* WebScraper.scrape, the title extracted from the page
WebScraperScrapeTitle ==
    /\ cpc = "web"
    /\ LET r == WebScrape("sC", config, docling, ParsedPage(page, "sC"))
       IN /\ scrapeResult' = r.result
          /\ trace' = r.trace
    /\ cpc' = "returned"
    /\ UNCHANGED << settings, config, feed, docling, page >>
    /\ UNCHANGED << ingestVars, sumVars, digestVars, ledgerVars, httpVars, raceVars >>

NextTitle == WebScraperScrapeTitle

SpecTitle == InitTitle /\ [][NextTitle]_vars

(***************************************************************************)
(* YouTubeScraper.scrape on its own: one call, on the listing of the       *)
(* channel.                                                                *)
(***************************************************************************)
InitVideo ==
    /\ PipelineOff
    /\ LedgerOff
    /\ HttpOff
    /\ RaceOff
    /\ cpc = "youtube"
    /\ settings = [max_articles_per_source |-> 10]
    /\ config = NoConfig
    /\ feed \in Listings
    /\ docling = [kind |-> "none", text |-> <<>>]
    /\ page = [kind |-> "raise", title |-> "", candidates |-> <<>>, paragraphs |-> NoText]
    /\ trace = <<>>
    /\ scrapeResult = None

\* YouTubeScraper.scrape
YouTubeScraperScrape ==
    /\ cpc = "youtube"
    /\ scrapeResult' = YouTubeScrape(feed)
    /\ cpc' = "returned"
    /\ UNCHANGED << settings, config, feed, docling, page, trace >>
    /\ UNCHANGED << ingestVars, sumVars, digestVars, ledgerVars, httpVars, raceVars >>

NextVideo == YouTubeScraperScrape

SpecVideo == InitVideo /\ [][NextVideo]_vars

(***************************************************************************)
(* Whole executions of run_daily_digest, one after the other, on a store   *)
(* that keeps its rows: the run is created, the active sources are scraped *)
(* and their articles saved, the articles found (or, when there are none,  *)
(* the recent ones) are digested, and the run is completed.  The store can *)
(* fail while a source's articles are saved and while the except clause    *)
(* writes the run.                                                         *)
(***************************************************************************)
\* get_recent_articles(days=1)
RecentDays == 1

\* the sources table of the execution model
ExecSources ==
    << [id |-> 1, name |-> "sA", source_type |-> "rss", url |-> "sA", active |-> TRUE],
       [id |-> 2, name |-> "sC", source_type |-> "web", url |-> "sC", active |-> TRUE] >>

\* what the connector attaches to a URL: u1 has a body, u2 has none
ExecScraped(u) ==
    [title |-> "T", url |-> u, content |-> IF u = "u1" THEN Body(1) ELSE NoText,
     transcript |-> NoText, published_date |-> None]

ExecConnectorResults ==
    { [raised |-> TRUE, batch |-> <<>>] } \cup
    { [raised |-> FALSE, batch |-> [i \in 1..Len(us) |-> ExecScraped(us[i])]] :
        us \in SeqsUpTo(ArticleURLs, MaxBatch) }

\* get_recent_articles: the rows scraped since the cutoff, the latest first;
\* rows of one time come in any order
GetRecentArticles(rows, clock, days) ==
    { l \in ArticleLists(rows) :
        /\ Range(l) = { r \in Range(rows) : r.scraped_at >= clock - days }
        /\ \A i, j \in 1..Len(l) : i < j => l[i].scraped_at >= l[j].scraped_at }

\* the loop of generate_digest from article i on, in a session that may
\* refuse statements; st is [rows, summaries, raised]
RECURSIVE DigestLoop(_, _, _, _, _)
DigestLoop(st, ok, list, replies, i) ==
    IF st.raised \/ i > Len(list) THEN st
    ELSE LET r == GenerateArticleSnippet(list[i], replies[i])
         IN IF ~ok
            THEN [st EXCEPT !.summaries = Append(@, r.summary), !.raised = TRUE]
            ELSE DigestLoop([st EXCEPT !.summaries = Append(@, r.summary),
                                       !.rows = UpdateArticleSummary(@, list[i].id,
                                                                     r.summary.snippet)],
                            ok, list, replies, i + 1)

\* generate_digest: the loop and the commit; an exception loses the updates
GenerateDigest(rows, ok, list, replies) ==
    IF list = <<>> THEN [rows |-> rows, summaries |-> <<>>, raised |-> FALSE]
    ELSE LET st == DigestLoop([rows |-> rows, summaries |-> <<>>, raised |-> FALSE],
                              ok, list, replies, 1)
         IN IF st.raised THEN [st EXCEPT !.rows = rows] ELSE st

InitExec ==
    /\ sources = ExecSources
    /\ articles = <<>>
    /\ sessionOk = TRUE
    /\ nextSourceId = Len(ExecSources) + 1
    /\ nextArticleId = 1
    /\ now = 1
    /\ pc = "idle"
    /\ runs = 0
    /\ faults = 0
    /\ declared = <<>>
    /\ sourcesConfig = <<>>
    /\ createdSources = <<>>
    /\ passSources = <<>>
    /\ idx = 1
    /\ allArticles = <<>>
    /\ scraped = NoConnectorResult
    /\ saved = <<>>
    /\ skipped = <<>>
    /\ connectorFailed = {}
    /\ saveFailed = {}
    /\ passStart = 0
    /\ newArticles = <<>>
    /\ error = None
    /\ SummarizerOff
    /\ DigestOff
    /\ ConnectorsOff
    /\ HttpOff
    /\ RaceOff
    /\ rpc = "idle"
    /\ digestRuns = <<>>
    /\ nextRunId = 1
    /\ digest_run_id = 0
    /\ found = 0
    /\ emailSent = FALSE
    /\ failure = None
    /\ exitCode = 0

\* what no action of the execution model changes
offExec == << sources, nextSourceId, pc, declared, sourcesConfig, createdSources, scraped,
              saved, skipped, connectorFailed, error, sumVars, digestVars, connVars,
              httpVars, raceVars >>

\* run_daily_digest up to the loop of scrape_all_sources, some time after
\* the execution before: init_db, a new session, the run created and
\* committed, no declared sources to load, get_active_sources
ExecStart ==
    /\ rpc \in { "idle", "exited" }
    /\ runs < MaxRuns
    /\ runs' = runs + 1
    /\ \E later \in 1..(RecentDays + 1) : now' = now + later
    /\ sessionOk' = TRUE
    /\ digestRuns' = Append(digestRuns, NewDigestRun(nextRunId, now', runs'))
    /\ digest_run_id' = nextRunId
    /\ nextRunId' = nextRunId + 1
    /\ passSources' = GetActiveSources(sources)
    /\ idx' = 1
    /\ allArticles' = <<>>
    /\ passStart' = Len(articles)
    /\ newArticles' = <<>>
    /\ saveFailed' = {}
    /\ found' = 0
    /\ emailSent' = FALSE
    /\ failure' = None
    /\ exitCode' = 0
    /\ rpc' = "scrape"
    /\ UNCHANGED << articles, nextArticleId, faults >>
    /\ UNCHANGED offExec

\* one iteration of the loop of scrape_all_sources: scrape_source, then
\* all_articles.extend
ExecScrapeSource ==
    /\ rpc = "scrape"
    /\ idx <= Len(passSources)
    /\ \E conn \in ExecConnectorResults :
       \E fault \in FaultPoints(conn.batch) :
         /\ fault # NoFault => (faults < MaxFaults /\ sessionOk)
         /\ LET r == ScrapeSource([committed |-> articles, pending |-> <<>>,
                                   ok |-> sessionOk, nextId |-> nextArticleId],
                                  passSources[idx], conn, fault, now)
            IN /\ fault # NoFault => r.injected
               /\ articles' = r.db.committed
               /\ sessionOk' = r.db.ok
               /\ nextArticleId' = r.db.nextId
               /\ faults' = IF fault # NoFault THEN faults + 1 ELSE faults
               /\ saveFailed' = IF r.injected THEN saveFailed \cup { passSources[idx].id }
                                ELSE saveFailed
               /\ allArticles' = allArticles \o r.ret
    /\ idx' = idx + 1
    /\ UNCHANGED << now, runs, passSources, passStart, newArticles >>
    /\ UNCHANGED ledgerVars
    /\ UNCHANGED offExec

\* the return of scrape_all_sources and, without new articles, the look for
\* recent ones: with none of those either the run is completed as a success
\* and run_daily_digest returns
ExecAfterPass ==
    /\ rpc = "scrape"
    /\ idx > Len(passSources)
    /\ IF allArticles # <<>>
       THEN /\ newArticles' = allArticles
            /\ rpc' = "digest"
            /\ UNCHANGED << digestRuns, failure >>
       ELSE IF ~sessionOk
       THEN /\ rpc' = "except"
            /\ failure' = "get_recent_articles"
            /\ UNCHANGED << digestRuns, newArticles >>
       ELSE \E recent \in GetRecentArticles(articles, now, RecentDays) :
              /\ newArticles' = recent
              /\ UNCHANGED failure
              /\ IF recent = <<>>
                 THEN /\ digestRuns' = CompleteDigestRun(digestRuns, digest_run_id, TRUE, 0,
                                           "No new articles to process.", None, FALSE, now)
                      /\ rpc' = "exited"
                 ELSE /\ rpc' = "digest"
                      /\ UNCHANGED digestRuns
    /\ UNCHANGED << articles, sessionOk, nextArticleId, now, runs, faults, passSources, idx,
                    allArticles, passStart, saveFailed >>
    /\ UNCHANGED << nextRunId, digest_run_id, found, emailSent, exitCode >>
    /\ UNCHANGED offExec

\* generate_digest(new_articles)
ExecDigest ==
    /\ rpc = "digest"
    /\ \E replies \in [1..Len(newArticles) -> ItemReplies] :
         LET g == GenerateDigest(articles, sessionOk, newArticles, replies)
         IN /\ articles' = g.rows
            /\ rpc' = IF g.raised THEN "except" ELSE "email"
            /\ failure' = IF g.raised THEN "update_article_summary" ELSE failure
    /\ found' = Len(newArticles)
    /\ UNCHANGED << sessionOk, nextArticleId, now, runs, faults, passSources, idx,
                    allArticles, passStart, saveFailed, newArticles >>
    /\ UNCHANGED << digestRuns, nextRunId, digest_run_id, emailSent, exitCode >>
    /\ UNCHANGED offExec

\* send_digest, which returns whether the mail went out, then
\* complete_digest_run(success=True) and the commit
ExecComplete ==
    /\ rpc = "email"
    /\ \E email_sent \in BOOLEAN :
         /\ emailSent' = email_sent
         /\ digestRuns' = CompleteDigestRun(digestRuns, digest_run_id, TRUE, found,
                                            "overall summary", None, email_sent, now)
    /\ rpc' = "exited"
    /\ UNCHANGED << articles, sessionOk, nextArticleId, now, runs, faults, passSources, idx,
                    allArticles, passStart, saveFailed, newArticles >>
    /\ UNCHANGED << nextRunId, digest_run_id, found, failure, exitCode >>
    /\ UNCHANGED offExec

\* the except clause: get_db has rolled the session back; in a session of
\* its own complete_digest_run(success=False) and the commit, whose failure
\* is printed; then sys.exit(1)
ExecFail ==
    /\ rpc = "except"
    /\ \E raises \in BOOLEAN :
         digestRuns' = IF digest_run_id = 0 \/ raises THEN digestRuns
                       ELSE CompleteDigestRun(digestRuns, digest_run_id, FALSE, 0, None,
                                              failure, FALSE, now)
    /\ rpc' = "exited"
    /\ exitCode' = 1
    /\ UNCHANGED << articles, sessionOk, nextArticleId, now, runs, faults, passSources, idx,
                    allArticles, passStart, saveFailed, newArticles >>
    /\ UNCHANGED << nextRunId, digest_run_id, found, emailSent, failure >>
    /\ UNCHANGED offExec

NextExec ==
    \/ ExecStart
    \/ ExecScrapeSource
    \/ ExecAfterPass
    \/ ExecDigest
    \/ ExecComplete
    \/ ExecFail

SpecExec == InitExec /\ [][NextExec]_vars

(***************************************************************************)
(* Two ingestion passes at once: two executions of the program, each with  *)
(* its own session on the one store, run scrape_source for the same source *)
(* and save batches that share a new URL.  The store is PostgreSQL at its  *)
(* default isolation: a statement reads the rows committed so far and the  *)
(* rows of its own transaction; an INSERT of a URL that an open            *)
(* transaction of the other session has inserted waits for that            *)
(* transaction to end, and the store ends a wait cycle by failing one of   *)
(* the waiting statements.                                                 *)
(***************************************************************************)
Passes == { 1, 2 }

RaceURLs == ArticleURLs \cup { "u3" }

\* what the connector returns to a pass: distinct items, the shared new URL
\* among them
RaceBatches ==
    { [i \in 1..Len(us) |-> ScrapedArticle(us[i], "rss")] :
        us \in { q \in SeqsUpTo(RaceURLs, MaxBatch) :
                   /\ "u1" \in Range(q)
                   /\ \A i, j \in 1..Len(q) : i # j => q[i] # q[j] } }

\* the session of pass p as its next statement finds it
SessionOf(p) ==
    [committed |-> articles, pending |-> passes[p].tx, ok |-> TRUE, nextId |-> nextArticleId]

\* the INSERT of the URL by pass p has to wait: the other pass has inserted
\* the URL in a transaction that is still open
Waits(p, url) == \E q \in Passes \ { p } : \E r \in Range(passes[q].tx) : r.url = url

\* pass p is at the INSERT of its item and waits
Waiting(p) == passes[p].at = "insert" /\ Waits(p, passes[p].batch[passes[p].i].url)

\* the exception reaches the except clause of scrape_source: the transaction
\* is lost and the source yields []
RaisedInSave(ps, err) ==
    [ps EXCEPT !.at = "returned", !.tx = <<>>, !.ret = <<>>, !.error = err]

InitRace ==
    /\ PipelineOff
    /\ ConnectorsOff
    /\ LedgerOff
    /\ HttpOff
    /\ \E b \in [Passes -> RaceBatches] :
         passes = [p \in Passes |->
                     [at |-> "lookup", batch |-> b[p], i |-> 1, tx |-> <<>>, saved |-> <<>>,
                      skipped |-> <<>>, ret |-> <<>>, error |-> None]]

\* get_article_by_url for the next item of the loop; an existing article is
\* printed and skipped
RaceLookup(p) ==
    /\ passes[p].at = "lookup"
    /\ passes[p].i <= Len(passes[p].batch)
    /\ LET url == passes[p].batch[passes[p].i].url
       IN IF GetArticleByUrl(SessionOf(p), url) # <<>>
          THEN passes' = [passes EXCEPT ![p].i = @ + 1, ![p].skipped = Append(@, url)]
          ELSE passes' = [passes EXCEPT ![p].at = "insert"]
    /\ UNCHANGED << ingestVars, sumVars, digestVars, connVars, ledgerVars, httpVars >>

\* create_article for the item: the flush inserts the row, or raises
\* IntegrityError when a committed row has the URL
RaceInsert(p) ==
    /\ passes[p].at = "insert"
    /\ ~Waiting(p)
    /\ LET r == CreateArticle(SessionOf(p), 1, passes[p].batch[passes[p].i], now)
       IN IF r.raised
          THEN /\ passes' = [passes EXCEPT ![p] = RaisedInSave(@, "IntegrityError")]
               /\ UNCHANGED nextArticleId
          ELSE /\ passes' = [passes EXCEPT ![p].at = "lookup", ![p].i = @ + 1,
                                           ![p].tx = r.db.pending,
                                           ![p].saved = @ \o r.row]
               /\ nextArticleId' = r.db.nextId
    /\ UNCHANGED << sources, articles, sessionOk, nextSourceId, now, pc, runs, faults,
                    declared, sourcesConfig, createdSources, error >>
    /\ UNCHANGED << passVars, sumVars, digestVars, connVars, ledgerVars, httpVars >>

\* both passes wait for each other: the store fails the INSERT of one
RaceDeadlock(p) ==
    /\ \A q \in Passes : Waiting(q)
    /\ passes' = [passes EXCEPT ![p] = RaisedInSave(@, "DeadlockDetected")]
    /\ UNCHANGED << ingestVars, sumVars, digestVars, connVars, ledgerVars, httpVars >>

\* self.db.commit() after the loop, and the return of saved_articles
RaceCommit(p) ==
    /\ passes[p].at = "lookup"
    /\ passes[p].i > Len(passes[p].batch)
    /\ articles' = Commit(SessionOf(p)).committed
    /\ passes' = [passes EXCEPT ![p].at = "returned", ![p].tx = <<>>, ![p].ret = passes[p].saved]
    /\ UNCHANGED << sources, sessionOk, nextSourceId, nextArticleId, now, pc, runs, faults,
                    declared, sourcesConfig, createdSources, error >>
    /\ UNCHANGED << passVars, sumVars, digestVars, connVars, ledgerVars, httpVars >>

NextRace ==
    \/ \E p \in Passes : RaceLookup(p)
    \/ \E p \in Passes : RaceInsert(p)
    \/ \E p \in Passes : RaceDeadlock(p)
    \/ \E p \in Passes : RaceCommit(p)

SpecRace == InitRace /\ [][NextRace]_vars

(***************************************************************************)
(* Properties of the ingestion pass and of source reconciliation.          *)
(***************************************************************************)
UrlsOf(rows) == { rows[i].url : i \in 1..Len(rows) }

RowsWithUrl(rows, u) == { i \in 1..Len(rows) : rows[i].url = u }

\* a step of the loop of scrape_all_sources: scrape_source for passSources[idx]
ScrapeStep == pc = "scraping" /\ pc' # "returned"

\* C1: for every scraped item whose URL is already in the article store, the
\* save inserts no row with that URL, returns no article with that URL, and
\* leaves every field of the existing row as it was.
C1_ExistingUrlIsNoOp ==
    [][ (ScrapeStep /\ ~scraped'.raised) =>
          \A k \in 1..Len(scraped'.batch) :
            LET u == scraped'.batch[k].url
            IN u \in UrlsOf(articles) =>
                 /\ RowsWithUrl(articles', u) = RowsWithUrl(articles, u)
                 /\ \A i \in RowsWithUrl(articles, u) : articles'[i] = articles[i]
                 /\ u \notin UrlsOf(saved') ]_vars

\* an item was skipped because its URL had been stored in an earlier execution
\* by another source, with other field values than the item carries
C1_Witness ==
    /\ pc = "scraping"
    /\ ~scraped.raised
    /\ \E k \in 1..Len(scraped.batch), i \in 1..Len(articles) :
         /\ articles[i].url = scraped.batch[k].url
         /\ articles[i].scraped_at < now
         /\ articles[i].source_id # passSources[idx - 1].id
         /\ articles[i].title # scraped.batch[k].title
         /\ scraped.batch[k].url \in Range(skipped)

\* C2: no two persisted articles share a URL, whatever the passes scraped.
C2_UrlUnique ==
    \A i, j \in 1..Len(articles) : articles[i].url = articles[j].url => i = j

\* one batch carried the same URL twice and the URL was new: it was saved once
\* and skipped once
C2_Witness ==
    /\ pc = "scraping"
    /\ Len(scraped.batch) = 2
    /\ scraped.batch[1].url = scraped.batch[2].url
    /\ Len(saved) = 1
    /\ skipped = << saved[1].url >>
    /\ Cardinality(UrlsOf(articles)) = 2

\* C3: absent a store failure create_sources_from_config returns, the store
\* then holds exactly one Source per URL of the list, and applying the list
\* the preceding application was given creates nothing.
C3_ReconcileIdempotent ==
    [][ (pc = "config" /\ pc' # "config" /\ sourcesConfig' # <<>> /\ faults' = faults) =>
          /\ pc' = "ready"
          /\ \A u \in UrlsOf(sourcesConfig') : Cardinality(RowsWithUrl(sources', u)) = 1
          /\ UrlsOf(sources') = UrlsOf(sources) \cup UrlsOf(sourcesConfig')
          /\ (sourcesConfig' = sourcesConfig /\ error = None) => sources' = sources ]_vars

\* a list that repeats a URL was applied in a later execution and created
\* nothing: the store holds the one Source of an earlier application
C3_Witness ==
    /\ pc = "ready"
    /\ runs >= 2
    /\ Len(sourcesConfig) = 2
    /\ sourcesConfig[1].url = sourcesConfig[2].url
    /\ createdSources = <<>>
    /\ Len(sources) = 1

\* C4: a connector that raises costs its own source only.  Every step of the
\* pass goes on to the next source; a source whose connector raised adds
\* nothing; a source scraped with a working store has each new URL it yields
\* persisted as its own article and returned.
C4_ConnectorFailureContained ==
    [][ ScrapeStep =>
          /\ pc' = "scraping"
          /\ idx' = idx + 1
          /\ scraped'.raised => (articles' = articles /\ allArticles' = allArticles)
          /\ (~scraped'.raised /\ sessionOk') =>
               \A k \in 1..Len(scraped'.batch) :
                 LET u == scraped'.batch[k].url
                 IN u \notin UrlsOf(articles) =>
                      \E i \in 1..Len(articles') :
                        /\ articles'[i].url = u
                        /\ articles'[i].source_id = passSources[idx].id
                        /\ articles'[i] \in Range(allArticles') ]_vars

\* a pass over three sources returned: the connector of the first raised, the
\* second and the third each had a new article persisted and returned
C4_Witness ==
    /\ pc = "returned"
    /\ Len(passSources) = 3
    /\ connectorFailed = { passSources[1].id }
    /\ Len(newArticles) = 2
    /\ newArticles[1].source_id = passSources[2].id
    /\ newArticles[2].source_id = passSources[3].id
    /\ Range(newArticles) \subseteq Range(articles)

\* the URLs of a batch that are new to the store, each at its first occurrence,
\* in batch order
RECURSIVE FirstNewUrls(_, _)
FirstNewUrls(batch, known) ==
    IF batch = <<>> THEN <<>>
    ELSE IF Head(batch).url \in known THEN FirstNewUrls(Tail(batch), known)
    ELSE << Head(batch).url >> \o FirstNewUrls(Tail(batch), known \cup { Head(batch).url })

\* C5: scrape_all_sources returns exactly the rows inserted during the pass, in
\* insertion order: source after source, and within a source the new URLs in
\* the order the connector gave them; a skipped duplicate is never returned.
C5_ReturnsNewInOrder ==
    [][ /\ (ScrapeStep /\ ~scraped'.raised /\ sessionOk') =>
             /\ [j \in 1..Len(saved') |-> saved'[j].url]
                  = FirstNewUrls(scraped'.batch, UrlsOf(articles))
             /\ allArticles' = allArticles \o saved'
             /\ articles' = articles \o saved'
        /\ (ScrapeStep /\ (scraped'.raised \/ ~sessionOk')) =>
             /\ allArticles' = allArticles
             /\ articles' = articles
        /\ (pc = "scraping" /\ pc' = "returned") =>
             newArticles' = SubSeq(articles', passStart' + 1, Len(articles')) ]_vars

\* a pass returned two articles of two sources, the second source having
\* skipped a duplicate of the first one's article before its own new one
C5_Witness ==
    /\ pc = "returned"
    /\ Len(newArticles) = 2
    /\ newArticles[1].source_id # newArticles[2].source_id
    /\ Len(scraped.batch) = 2
    /\ skipped = << newArticles[1].url >>
    /\ saved = << newArticles[2] >>

(***************************************************************************)
(* Properties of generate_article_snippet, stated on positions of the      *)
(* output rather than with the parser's own split and strip.               *)
(***************************************************************************)
\* the completion request was answered with a text, which was parsed
Parsed == spc = "done" /\ requests # <<>> /\ reply.kind = "text"

\* the position of the first x in s at or after position from; Len(s) + 1 if none
FirstAt(s, x, from) ==
    IF \E i \in from..Len(s) : s[i] = x
    THEN CHOOSE i \in from..Len(s) : s[i] = x /\ \A j \in from..(i - 1) : s[j] # x
    ELSE Len(s) + 1

\* s without its leading and trailing elements of chars
Inner(s, chars) ==
    LET keep == { i \in 1..Len(s) : s[i] \notin chars }
    IN IF keep = {} THEN <<>>
       ELSE SubSeq(s, CHOOSE i \in keep : \A j \in keep : i <= j,
                      CHOOSE i \in keep : \A j \in keep : i >= j)

\* the model output as the parser receives it: content.strip()
Output == Inner(reply.text, Whitespace)

\* the lines of a text
RECURSIVE LinesOf(_)
LinesOf(s) ==
    LET k == FirstAt(s, "\n", 1)
    IN IF k > Len(s) THEN << s >>
       ELSE << SubSeq(s, 1, k - 1) >> \o LinesOf(SubSeq(s, k + 1, Len(s)))

\* the first character of the line that is not whitespace is a dash
IsBulleted(line) ==
    \E i \in 1..Len(line) : line[i] = "-" /\ \A j \in 1..(i - 1) : line[j] \in Whitespace

\* a line trimmed of whitespace and of one leading bullet marker
TrimBullet(line) ==
    LET t == Inner(line, Whitespace)
    IN IF t # <<>> /\ t[1] = "-" THEN Inner(Tail(t), Whitespace) ELSE t

\* C6 as claimed: with the KEY POINTS: marker in the output, every line after
\* the marker that is non-empty once trimmed of whitespace and a leading
\* bullet is, so trimmed, one of the key points, bulleted or not.
C6_AnyLineIsKeyPoint ==
    (Parsed /\ Contains(Output, KEYP)) =>
        LET after == SubSeq(Output, FirstAt(Output, KEYP, 1) + 1, Len(Output))
        IN \A line \in Range(LinesOf(after)) :
             TrimBullet(line) # <<>> => TrimBullet(line) \in Range(summary.key_points)

\* the text between the first KEY POINTS: marker and the next one, trimmed
KeyPointsSection ==
    LET k == FirstAt(Output, KEYP, 1)
    IN Inner(SubSeq(Output, k + 1, FirstAt(Output, KEYP, k + 1) - 1), Whitespace)

\* C6 as amended: the key points are, in order, the lines of the trimmed text
\* between the first KEY POINTS: marker and the next one (or the end) that
\* begin with a dash after trimming, each without its leading and trailing
\* dashes and spaces and then trimmed; a line that does not begin with a dash
\* is no key point.
C6_BulletedLinesAreKeyPoints ==
    (Parsed /\ Contains(Output, KEYP)) =>
        LET bulleted == SelectSeq(LinesOf(KeyPointsSection), IsBulleted)
        IN summary.key_points =
             [i \in 1..Len(bulleted) |-> Inner(Inner(bulleted[i], { "-", " " }), Whitespace)]

\* an output with an unbulleted line before two bulleted ones was parsed: the
\* two bulleted lines are the key points, in their order
C6_Witness ==
    /\ Parsed
    /\ Contains(Output, KEYP)
    /\ \E line \in Range(LinesOf(KeyPointsSection)) :
         Inner(line, Whitespace) # <<>> /\ ~IsBulleted(line)
    /\ summary.key_points = << << "b" >>, << "-", "a" >> >>

\* the text after the first SNIPPET: marker up to position to, trimmed
SnippetUpTo(to) == Inner(SubSeq(Output, FirstAt(Output, SNIP, 1) + 1, to - 1), Whitespace)

\* C7: with the SNIPPET: marker in the output, the snippet is the trimmed text
\* from the first SNIPPET: marker to the next KEY POINTS: marker or to the end;
\* the example output gives its snippet and two key points.
C7_SnippetUpToKeyPoints ==
    (Parsed /\ Contains(Output, SNIP)) =>
        LET claimed == SnippetUpTo(FirstAt(Output, KEYP, FirstAt(Output, SNIP, 1) + 1))
        IN /\ claimed # <<>> => summary.snippet = claimed
           /\ reply.text = ExampleOutput =>
                /\ summary.snippet = << "a", " ", "b" >>
                /\ summary.key_points = << << "a" >>, << "b" >> >>

\* C8: a text output lacking a marker is parsed without failure: no KEY
\* POINTS: marker gives no key points; no SNIPPET: marker, or nothing but
\* whitespace after it, gives the "Unable to generate snippet." snippet; the
\* error snippet is never the result.
C8_MissingMarkerFallback ==
    Parsed =>
        /\ summary.snippet # ErrorSnippet
        /\ ~Contains(Output, KEYP) => summary.key_points = <<>>
        /\ ~Contains(Output, SNIP) => summary.snippet = UnableSnippet
        /\ Contains(Output, SNIP) =>
             LET from == FirstAt(Output, SNIP, 1) + 1
                 to == Min(FirstAt(Output, SNIP, from), FirstAt(Output, KEYP, from))
             IN (\A i \in from..(to - 1) : Output[i] \in Whitespace)
                  => summary.snippet = UnableSnippet

\* an output with text and neither marker was parsed
C8_Witness ==
    /\ Parsed
    /\ Output = << "a", "b" >>
    /\ summary.snippet = UnableSnippet
    /\ summary.key_points = <<>>

\* a text that is None or empty
Absent(text) == text = NoText \/ Len(text) = 0

IsPrefix(p, text) == Len(p) <= Len(text) /\ \A i \in 1..Len(p) : p[i] = text[i]

\* C9: without body and transcript the summary is the "Content not available
\* for analysis." one, with no key points, and no request is made; with a
\* non-empty body the request carries text of the body, and text of the
\* transcript is carried only when the body is empty or absent.
C9_InputSelection ==
    /\ (spc = "done" /\ Absent(article.content) /\ Absent(article.transcript)) =>
         /\ summary = [article_id |-> article.id, title |-> article.title,
                       url |-> article.url, snippet |-> NotAvailableSnippet,
                       key_points |-> <<>>]
         /\ requests = <<>>
    /\ (Absent(article.content) /\ Absent(article.transcript)) => requests = <<>>
    /\ \A k \in 1..Len(requests) :
         /\ requests[k].text # <<>>
         /\ ~Absent(article.content) => IsPrefix(requests[k].text, article.content)
         /\ (~Absent(article.transcript) /\ IsPrefix(requests[k].text, article.transcript))
              => Absent(article.content)

\* the call returned for an article with an empty body and no transcript
C9_Witness ==
    /\ spc = "done"
    /\ article.content = <<>>
    /\ article.transcript = NoText
    /\ requests = <<>>
    /\ summary.snippet = NotAvailableSnippet

\* C10: the article text of a request is the first min(len, 3000) characters
\* of the chosen input, the body or else the transcript; never more than 3000.
C10_TextTruncated ==
    \A k \in 1..Len(requests) :
        LET chosen == IF ~Absent(article.content) THEN article.content
                      ELSE article.transcript
            n == IF Len(chosen) < 3000 THEN Len(chosen) ELSE 3000
        IN /\ Len(requests[k].text) <= 3000
           /\ requests[k].text = [i \in 1..n |-> chosen[i]]

\* a request was made for a body longer than the budget
C10_Witness ==
    /\ requests # <<>>
    /\ Len(article.content) > 3000
    /\ Len(requests[1].text) = 3000

\* C11: a completion request that failed (the client raised, the response had
\* no choices or no content) is not propagated: the call returns the summary
\* with the article's id, title and url, the "Error generating summary."
\* snippet and no key points.
C11_RequestFailureContained ==
    (spc = "done" /\ requests # <<>> /\ reply.kind # "text") =>
        summary = [article_id |-> article.id, title |-> article.title, url |-> article.url,
                   snippet |-> ErrorSnippet, key_points |-> <<>>]

\* the request was made with a truncated body, the response had no content,
\* and the call returned the error summary of the article
C11_Witness ==
    /\ spc = "done"
    /\ Len(requests) = 1
    /\ Len(article.content) > MaxChars
    /\ reply.kind = "none"
    /\ summary.article_id = 7
    /\ summary.snippet = ErrorSnippet
    /\ summary.key_points = <<>>

(***************************************************************************)
(* Properties of generate_overall_summary and generate_digest.             *)
(***************************************************************************)
\* a DigestSummary was returned
IsDigestSummary(d) == DOMAIN d = { "overall_summary", "insights", "article_summaries" }

\* the events of the call with one of the given operations
EventsOf(ops) == SelectSeq(events, LAMBDA e : e.op \in ops)

\* C12: aggregating nothing returns a "no articles" digest (each function
\* has its own sentence for it) with no insights and no article summaries,
\* and sends no completion request, through generate_overall_summary([])
\* and through generate_digest([]).
C12_EmptyAggregate ==
    /\ (entry = "generate_overall_summary" /\ article_summaries = <<>> /\ dpc = "done") =>
          /\ digest = [overall_summary |-> NoArticlesSummary, insights |-> <<>>,
                       article_summaries |-> <<>>]
          /\ events = <<>>
    /\ (entry = "generate_digest" /\ digestArticles = <<>> /\ dpc = "done") =>
          /\ digest = [overall_summary |-> NoNewArticlesSummary, insights |-> <<>>,
                       article_summaries |-> <<>>]
          /\ events = <<>>

\* generate_overall_summary was called with the empty list and returned
\* its sentinel digest, the endpoint not having been asked
C12_Witness ==
    /\ entry = "generate_overall_summary"
    /\ article_summaries = <<>>
    /\ dpc = "done"
    /\ digest.overall_summary = NoArticlesSummary
    /\ overallReply = None

\* C13: on a non-empty list generate_overall_summary returns a digest
\* whatever the request did; after a failed request the digest has the
\* "Error generating overall summary." text and no insights; in either
\* outcome its article_summaries are the list given, in the same order.
C13_OverallFailureContained ==
    (dpc = "done" /\ article_summaries # <<>>) =>
        /\ overallReply \in OverallReplies
        /\ IsDigestSummary(digest)
        /\ digest.article_summaries = article_summaries
        /\ overallReply.kind # "text" =>
             /\ digest.overall_summary = ErrorOverall
             /\ digest.insights = <<>>

\* the aggregate request over two summaries was answered without content
\* and the error digest carries the two summaries
C13_Witness ==
    /\ dpc = "done"
    /\ Len(article_summaries) = 2
    /\ overallReply.kind = "none"
    /\ digest.overall_summary = ErrorOverall
    /\ digest.article_summaries = article_summaries
    /\ article_summaries[1] # article_summaries[2]

\* C19: in generate_digest over N >= 1 articles the per-item steps run one
\* at a time in the order of the input (a request, if any, is followed by
\* its summary and that by the write of its snippet before the next article
\* is taken); a call that returns has sent exactly one aggregate request,
\* and when that request is sent every article of the input has its summary
\* appended and its snippet in the store.
C19_AggregateAfterItems ==
    (entry = "generate_digest" /\ digestArticles # <<>>) =>
        LET items == EventsOf({ "summary" })
            aggregate == { k \in 1..Len(events) : events[k].op = "overall_request" }
        IN /\ items = [i \in 1..Len(items) |-> Event("summary", digestArticles[i].id)]
           /\ Len(items) = Len(article_summaries)
           /\ \A k \in 1..Len(events) :
                /\ events[k].op = "snippet_request" =>
                     k < Len(events) /\ events[k + 1] = Event("summary", events[k].id)
                /\ (events[k].op = "summary" /\ k < Len(events)) =>
                     events[k + 1] = Event("update", events[k].id)
           /\ Cardinality(aggregate) <= 1
           /\ dpc = "done" => Cardinality(aggregate) = 1
           /\ \A k \in aggregate :
                /\ k = Len(events)
                /\ Len(article_summaries) = Len(digestArticles)
                /\ \A i \in 1..Len(digestArticles) :
                     /\ \E j \in 1..(k - 1) : events[j] = Event("update", digestArticles[i].id)
                     /\ \E row \in Range(articles) :
                          /\ row.id = digestArticles[i].id
                          /\ row.summary = article_summaries[i].snippet

\* a digest over two articles, taken in the order 2, 1, returned: two
\* summaries, two writes, the commit, then the one aggregate request
C19_Witness ==
    /\ entry = "generate_digest"
    /\ dpc = "done"
    /\ Len(digestArticles) = 2
    /\ digestArticles[1].id = 2
    /\ [k \in 1..Len(events) |-> events[k].op] =
         << "snippet_request", "summary", "update", "summary", "update", "commit",
            "overall_request" >>
    /\ articles[2].summary = article_summaries[1].snippet

(***************************************************************************)
(* Properties of the source connectors.                                    *)
(***************************************************************************)
\* the per-source limit in force: the option of the source, else the setting
FeedLimit ==
    IF config.present /\ "max_articles" \in config.keys
    THEN config.max_articles
    ELSE settings.max_articles_per_source

\* the feed positions of the articles returned, in the order returned
ReturnedPositions == [i \in 1..Len(scrapeResult) |-> scrapeResult[i].title]

\* C14 as claimed: the feed connector returns exactly the first min(n, m)
\* entries of the feed, in feed order.
C14_FirstEntriesReturned ==
    (cpc = "returned" /\ feed # <<>>) =>
        ReturnedPositions = [i \in 1..Min(Len(feed), FeedLimit) |-> i]

\* C14 as amended: the feed connector returns, in feed order, those of the
\* first min(n, m) entries that have a link and are read without error: all
\* of them when every one is well formed (the first 10 of 15 for limit 10),
\* never more than m items and never an entry positioned after the first m.
C14_KeptFirstEntriesReturned ==
    (cpc = "returned" /\ feed # <<>>) =>
        LET first == 1..Min(Len(feed), FeedLimit)
            kept == { i \in first : feed[i].link # "" /\ ~feed[i].malformed }
        IN /\ Range(ReturnedPositions) = kept
           /\ \A i, j \in 1..Len(scrapeResult) :
                i < j => ReturnedPositions[i] < ReturnedPositions[j]
           /\ Len(scrapeResult) <= FeedLimit
           /\ \A i \in 1..Len(scrapeResult) : ReturnedPositions[i] <= FeedLimit
           /\ (\A i \in first : feed[i].link # "" /\ ~feed[i].malformed) =>
                ReturnedPositions = [i \in first |-> i]
           /\ (Len(feed) = 15 /\ FeedLimit = 10) => Len(scrapeResult) = 10

\* a feed of three entries, the first without link, was scraped with limit
\* 2: the second entry alone is returned
C14_Witness ==
    /\ cpc = "returned"
    /\ Len(feed) = 3
    /\ FeedLimit = 2
    /\ feed[1].link = ""
    /\ EntryKept(feed[2])
    /\ EntryKept(feed[3])
    /\ ReturnedPositions = << 2 >>

\* WebScraper.scrape returned
WebReturned == cpc = "returned" /\ feed = <<>>

\* the option is given and has the value
Option(key, value) == config.present /\ key \in config.keys /\ config[key] = value

\* what docling exported, without the whitespace around it
DoclingYield == IF docling.kind = "text" THEN Inner(docling.text, Whitespace) ELSE <<>>

\* the texts the strategies that were run came up with
YieldsOfTried ==
    (IF "docling" \in Range(trace) THEN { DoclingYield } ELSE {}) \cup
    (IF "selectors" \in Range(trace)
     THEN Range(page.candidates) \cup (IF page.paragraphs = NoText THEN {} ELSE { page.paragraphs })
     ELSE {})

\* C15: the generic-web connector returns no article with a body of fewer
\* than 100 characters, and returns the empty list whenever every strategy
\* it ran came up with fewer than 100 characters.
C15_NoShortArticle ==
    WebReturned =>
        /\ \A a \in Range(scrapeResult) : a.content # NoText /\ Len(a.content) >= 100
        /\ (\A t \in YieldsOfTried : Len(t) < 100) => scrapeResult = <<>>

\* docling exported 99 characters, the selectors then matched one element
\* of 99 characters on a page with no paragraphs: nothing is returned
C15_Witness ==
    /\ WebReturned
    /\ trace = << "docling", "request", "selectors" >>
    /\ Len(DoclingYield) = 99
    /\ page.candidates = << Body(99) >>
    /\ page.paragraphs = NoText
    /\ scrapeResult = <<>>

\* the body the selector-based extraction finds on the page: the first
\* matched element of more than 100 characters, else the paragraphs if they
\* have more than 100, else none
SelectorBodies ==
    LET long == { i \in 1..Len(page.candidates) : Len(page.candidates[i]) > 100 }
    IN IF long # {}
       THEN { page.candidates[CHOOSE i \in long : \A j \in long : i <= j] }
       ELSE IF page.paragraphs # NoText /\ Len(page.paragraphs) > 100
       THEN { page.paragraphs }
       ELSE {}

Exits == rpc # "exited" /\ rpc' = "exited"

\* C17: the DigestRun an execution created and committed has, when the
\* execution ends, been written by complete_digest_run exactly once, as the
\* store holds it; and a row whose completion time is set is never changed
\* again.
C17_CompletedExactlyOnce ==
    [][ /\ \A i \in 1..Len(digestRuns) :
             digestRuns[i].completed_at # 0 => digestRuns'[i] = digestRuns[i]
        /\ Exits =>
             \A row \in Range(digestRuns') :
                row.id = digest_run_id' => row.completions = 1 ]_vars

\* C18: an execution that raised at any step ends with a DigestRun of its
\* own in the store that has success false, a completion time and the
\* error captured.
C18_FailureRecorded ==
    (rpc = "exited" /\ exitCode = 1) =>
        \E row \in Range(digestRuns) :
           /\ row.execution = runs
           /\ ~row.success
           /\ row.completed_at # 0
           /\ row.error_message = failure

(***************************************************************************)
(* Properties of a request through the HTTP session.                       *)
(***************************************************************************)
\* the answers after which the request was sent again
Resent == { i \in 1..Len(sends) : i < Len(sends) }

\* C20, as stated: a GET that the server keeps answering with 429, 500, 502,
\* 503 or 504 is sent at most 3 times in total.
C20_AtMostThreeSends ==
    (method = "GET" /\ \A i \in 1..Len(sends) :
                          sends[i].status \in { 429, 500, 502, 503, 504 })
        => Len(sends) <= 3

\* C20, amended: a request is sent at most 4 times, the first attempt and 3
\* retries; a GET that the server keeps answering with 429, 500, 502, 503 or
\* 504 fails with an error after the 4th answer; an answer is followed by
\* another send only if the connection failed, or the method is idempotent and
\* the status is one of those five or 413 with a Retry-After header; a request
\* that is over returned a response only if its last status is below 400.
C20_BoundedRetry ==
    /\ Len(sends) <= 4
    /\ \A i \in Resent :
          \/ sends[i].status = 0
          \/ /\ method \in { "HEAD", "GET", "OPTIONS" }
             /\ \/ sends[i].status \in { 429, 500, 502, 503, 504 }
                \/ sends[i].status = 413 /\ sends[i].retry_after
    /\ hpc = "sending" => httpResult = None
    /\ hpc = "done" =>
          /\ httpResult \in { "Response", "HTTPError", "RetryError", "ConnectionError" }
          /\ httpResult = "Response" <=> sends[Len(sends)].status = 200
          /\ (method = "GET" /\ \A i \in 1..Len(sends) :
                                   sends[i].status \in { 429, 500, 502, 503, 504 })
                => Len(sends) = 4 /\ httpResult = "RetryError"

\* a GET answered 503 four times and then failed
C20_Witness ==
    /\ hpc = "done"
    /\ method = "GET"
    /\ Len(sends) = 4
    /\ \A i \in 1..4 : sends[i].status = 503
    /\ httpResult = "RetryError"

(***************************************************************************)
(* Properties of whole executions.                                         *)
(***************************************************************************)
\* the run of the current execution, as the ledger holds it
CurrentRun == { row \in Range(digestRuns) : row.id = digest_run_id }

\* C21: an execution in which the store failed while a source's articles
\* were being saved ends in the except clause of run_daily_digest, with its
\* DigestRun recorded as completed, success = false, and the error detail.
C21_SaveFailureRecorded ==
    (rpc = "exited" /\ saveFailed # {}) =>
        /\ exitCode = 1
        /\ \A row \in CurrentRun :
              /\ ~row.success
              /\ row.completed_at # 0
              /\ row.error_message # None

(***************************************************************************)
(* Properties of the title of a web article.                               *)
(***************************************************************************)
\* the title sources of the page in order, as texts ("" for a missing one)
TitleCandidates ==
    << IF page.heads.og_title = None THEN "" ELSE page.heads.og_title,
       IF page.heads.h1 = None THEN "" ELSE StripText(page.heads.h1),
       IF page.heads.title = None THEN "" ELSE StripText(page.heads.title) >>

\* C22: the title of the article returned is the first non-empty one of the
\* og:title content, the first heading's text and the document title's
\* text; it is the URL only when all three are empty; it is never empty.
C22_FirstAvailableTitle ==
    (cpc = "returned" /\ scrapeResult # <<>>) =>
        LET title == scrapeResult[1].title
            c == TitleCandidates
        IN /\ title # ""
           /\ title = IF c[1] # "" THEN c[1]
                      ELSE IF c[2] # "" THEN c[2]
                      ELSE IF c[3] # "" THEN c[3]
                      ELSE scrapeResult[1].url

(***************************************************************************)
(* Properties of the feed connector under malformed entries.               *)
(***************************************************************************)
\* C23: scrape returns a list whatever the entries are; no entry without
\* link and no entry whose processing raises is in it, every other entry
\* among the first max_articles entries is, and the list is in feed order.
C23_MalformedEntrySkipped ==
    (cpc = "returned" /\ feed # <<>>) =>
        /\ \A i \in 1..Len(scrapeResult) :
              /\ scrapeResult[i].title \in 1..Len(feed)
              /\ feed[scrapeResult[i].title].link # ""
              /\ ~feed[scrapeResult[i].title].malformed
              /\ scrapeResult[i].url = feed[scrapeResult[i].title].link
        /\ \A k \in 1..Len(feed) :
              (k <= FeedLimit /\ feed[k].link # "" /\ ~feed[k].malformed) =>
                  \E i \in 1..Len(scrapeResult) : scrapeResult[i].title = k
        /\ \A i \in 1..Len(scrapeResult) : \A j \in 1..Len(scrapeResult) :
              i < j => scrapeResult[i].title < scrapeResult[j].title

\* a feed whose first entry raises and whose second has no link was scraped
\* with a limit of 3 or more: the third entry alone is returned
C23_Witness ==
    /\ cpc = "returned"
    /\ Len(feed) = 3
    /\ FeedLimit >= 3
    /\ feed[1].malformed
    /\ feed[2].link = ""
    /\ EntryKept(feed[3])
    /\ Len(scrapeResult) = 1
    /\ scrapeResult[1].title = 3

(***************************************************************************)
(* Properties of the video connector.                                      *)
(***************************************************************************)
\* the metadata of the video has every required field, an id of exactly 11
\* valid characters, a title, a channel and a readable publish date
WellFormed(video) ==
    /\ video.videoId # NoText
    /\ Len(video.videoId) = 11
    /\ \A k \in 1..Len(video.videoId) : video.videoId[k] \in AllowedIdChars
    /\ video.title # NoText /\ video.title # <<>>
    /\ video.channelId # NoText
    /\ \E k \in 1..Len(video.channelId) : video.channelId[k] \notin Whitespace
    /\ video.publishedAt = IsoDate

\* the listing positions of the well-formed videos, in order
WellFormedPositions == SelectSeq([i \in 1..Len(feed) |-> i], LAMBDA i : WellFormed(feed[i]))

\* C24: the videos returned are the well-formed videos of the listing, in
\* listing order, whatever the others are; each is returned with the text of
\* its transcript, or without transcript when the transcript is disabled,
\* not found or not fetched.
C24_MalformedVideoDropped ==
    cpc = "returned" =>
        /\ Len(scrapeResult) = Len(WellFormedPositions)
        /\ \A i \in 1..Len(scrapeResult) :
              LET video == feed[WellFormedPositions[i]]
              IN /\ scrapeResult[i].content = video.description
                 /\ scrapeResult[i].title = video.title
                 /\ scrapeResult[i].transcript =
                       IF video.transcript \in { "disabled", "not found", "error", "blank" }
                       THEN NoText ELSE Transcript(2)

\* a listing of a video with a short id and a well-formed video whose
\* transcript is disabled: the second is returned, without transcript
C24_Witness ==
    /\ cpc = "returned"
    /\ Len(feed) = 2
    /\ Len(feed[1].videoId) = 10
    /\ WellFormed(feed[2])
    /\ feed[2].transcript = "disabled"
    /\ Len(scrapeResult) = 1
    /\ scrapeResult[1].content = feed[2].description
    /\ scrapeResult[1].transcript = NoText

(***************************************************************************)
(* Properties of the messages of the feed connector.                       *)
(***************************************************************************)
\* the feed positions a message of scrape is about
LoggedPositions == { trace[i].entry : i \in 1..Len(trace) }

\* C25: every entry among the first max_articles that scrape does not
\* return, because it has no link or because its processing raised, has a
\* message printed about it by the time scrape returns.
C25_DropsLogged ==
    (cpc = "returned" /\ feed # <<>>) =>
        \A k \in 1..Len(feed) :
           (k <= FeedLimit /\ \A i \in 1..Len(scrapeResult) : scrapeResult[i].title # k)
               => k \in LoggedPositions

(***************************************************************************)
(* Properties of a pass as a whole.                                        *)
(***************************************************************************)
\* the rows the store holds now and did not hold when the pass began
CommittedInPass == { articles[i] : i \in (passStart + 1)..Len(articles) }

\* the loop of scrape_all_sources is over: it returns all_articles
PassOver == rpc = "scrape" /\ idx > Len(passSources)

\* C26: when scrape_all_sources returns, the article rows committed during
\* the pass are the articles of the batch it returns, no more and no less,
\* also when the save of some source failed part-way.
C26_CommittedEqualsReturned ==
    PassOver => CommittedInPass = Range(allArticles)

\* a pass returned articles although the save of one of its sources failed
\* after an article had been created, which is lost
C26_Witness ==
    /\ PassOver
    /\ saveFailed # {}
    /\ allArticles # <<>>
    /\ nextArticleId - 1 > Len(articles)

\* the sentinel snippets the summarizer falls back to
SentinelSnippets == { ErrorSnippet, UnableSnippet, NotAvailableSnippet }

\* a stored summary the model generated
ModelGenerated(text) == text # NoText /\ text \notin SentinelSnippets

\* C27: a stored summary that the model generated is never replaced by one of
\* the sentinel snippets, also when the article is digested again as one of
\* the recent articles.
C27_GeneratedSnippetKept ==
    [][\A i \in 1..Len(articles) :
          ModelGenerated(articles[i].summary) =>
              articles'[i].summary \notin SentinelSnippets]_vars

\* the text between the first marker of a kind and the next one, trimmed
SectionAfter(out, marker) ==
    LET k == FirstAt(out, marker, 1)
    IN Inner(SubSeq(out, k + 1, FirstAt(out, marker, k + 1) - 1), Whitespace)

\* a parsed list has no empty element, and its elements are the bulleted
\* lines of the section with nothing removed from a line but surrounding
\* whitespace and one leading bullet marker
CleanList(list, section) ==
    LET bulleted == SelectSeq(LinesOf(section), IsBulleted)
    IN /\ \A i \in 1..Len(list) : list[i] # <<>>
       /\ list = [i \in 1..Len(bulleted) |-> TrimBullet(bulleted[i])]

\* the output of the aggregate request as the parser receives it
OverallOutput == Inner(overallReply.text, Whitespace)

\* C28: no element of the parsed key-point list (per-item summary) or of the
\* parsed insight list (aggregate digest) is the empty string, and parsing
\* removes from a line nothing but surrounding whitespace and a single
\* leading bullet marker.
C28_ParsedListsClean ==
    /\ (Parsed /\ Contains(Output, KEYP)) =>
           CleanList(summary.key_points, SectionAfter(Output, KEYP))
    /\ (dpc = "done" /\ article_summaries # <<>> /\ overallReply.kind = "text"
          /\ Contains(OverallOutput, INS)) =>
           CleanList(digest.insights, SectionAfter(OverallOutput, INS))

\* the selector-based method accepts a body text: _extract_article_content
\* returns it for a page whose only content element holds it
SelectorAccepts(text) ==
    ExtractArticleContent([kind |-> "page", title |-> "", candidates |-> << text >>,
                           paragraphs |-> NoText]) # NoText

\* C29: both extraction strategies of the generic-web connector accept a body
\* text of length L exactly when L >= 100: the converter's export, once
\* stripped, and the text of a content element or of the joined paragraphs.
C29_SameThreshold ==
    cpc = "returned" =>
        /\ docling.kind = "text" =>
               (ConvertUrlToMarkdown(docling) # NoText <=>
                    Len(Inner(docling.text, Whitespace)) >= MinContent)
        /\ page.kind = "page" =>
               \A text \in Range(page.candidates) \cup ({ page.paragraphs } \ { NoText }) :
                   /\ SelectorAccepts(text) <=> Len(text) >= MinContent
                   /\ SelectorAccepts(text) <=>
                          ConvertUrlToMarkdown([kind |-> "text", text |-> text]) # NoText

(***************************************************************************)
(* Properties of two ingestion passes at once.                             *)
(***************************************************************************)
\* the URLs of the batches of the two passes
RaceScraped == UNION { UrlsOf(passes[p].batch) : p \in Passes }

\* C30: in every interleaving of two ingestion passes on one store whose
\* batches share a new URL, no insert meets a unique-key conflict, and when
\* both passes have returned every scraped URL, the shared one and the
\* others, is in the store once and was returned by exactly one pass.
C30_RaceFreeSave ==
    /\ \A p \in Passes : passes[p].error = None
    /\ (\A p \in Passes : passes[p].at = "returned") =>
           \A u \in RaceScraped :
               /\ Cardinality(RowsWithUrl(articles, u)) = 1
               /\ Cardinality({ p \in Passes : u \in UrlsOf(passes[p].ret) }) = 1

=============================================================================
